---- MODULE Spec2Model ----
(***************************************************************************)
(* Model of the card gallery's ingestion pipeline (src/unnamed/part_001):  *)
(* the CSV row parser, the record builder, the multi-source merger, the    *)
(* query engine (applyFilters) and the fetch / preload state of the        *)
(* PokeCardGallery component.                                              *)
(*                                                                         *)
(* A JavaScript string is modelled as a sequence of one-character strings. *)
(* A character outside ASCII is written as an atom naming its code point   *)
(* ("u30DF"); BOM is U+FEFF.  The value undefined of an optional string    *)
(* field is the one-element sequence Undefined, which is no string of      *)
(* characters; a three-valued flag is "true", "false" or "undefined".      *)
(***************************************************************************)
EXTENDS Integers, Sequences, FiniteSets, TLC

(***************************************************************************)
(* Bounds of the model.                                                    *)
(***************************************************************************)
\* longest input text handed to the row-parsing loop
MaxLen == 4
\* most groups in one call of mergeCardsNoDedupe
MaxGroups == 2
\* most records, over all groups, in one call of mergeCardsNoDedupe
MaxMergeCards == 3
\* most records in the collection handed to applyFilters
MaxCards == 2
\* most columns of a header row handed to the record loop
MaxCols == 2
\* most data rows handed to the record loop
MaxDataRows == 2
\* the longest run of white space and of digits in a grade text
MaxGap == 2
MaxDigits == 3

(***************************************************************************)
(* Characters and string helpers (the JavaScript built-ins the code uses). *)
(***************************************************************************)
QUOTE == "\""
COMMA == ","
LF == "\n"
CR == "\r"
SPACE == " "
BOM == "uFEFF"
\* what csv[i] yields at or past the end of the string
NoChar == "undefined"
Undefined == <<"undefined">>

LowerLetters == {"a", "b", "c", "d", "e", "f", "g", "h", "i", "j", "k", "l", "m",
                 "n", "o", "p", "q", "r", "s", "t", "u", "v", "w", "x", "y", "z"}
UpperLetters == {"A", "B", "C", "D", "E", "F", "G", "H", "I", "J", "K", "L", "M",
                 "N", "O", "P", "Q", "R", "S", "T", "U", "V", "W", "X", "Y", "Z"}
Digits == {"0", "1", "2", "3", "4", "5", "6", "7", "8", "9"}

\* String.prototype.trim removes WhiteSpace and LineTerminator, U+FEFF included
IsSpace(c) == c \in {SPACE, LF, CR, BOM, "\t"}

RECURSIVE TrimStart(_)
TrimStart(s) ==
    IF s # <<>> /\ IsSpace(Head(s)) THEN TrimStart(Tail(s)) ELSE s

RECURSIVE TrimEnd(_)
TrimEnd(s) ==
    IF s # <<>> /\ IsSpace(s[Len(s)]) THEN TrimEnd(SubSeq(s, 1, Len(s) - 1)) ELSE s

Trim(s) == TrimEnd(TrimStart(s))

\* csv[k] with a 0-based index k, undefined at or past the end
At(s, k) == IF k >= 0 /\ k < Len(s) THEN s[k + 1] ELSE NoChar

stripBOM(s) == IF s # <<>> /\ s[1] = BOM THEN Tail(s) ELSE s

Last(s) == s[Len(s)]

UpperSeq == <<"A", "B", "C", "D", "E", "F", "G", "H", "I", "J", "K", "L", "M",
              "N", "O", "P", "Q", "R", "S", "T", "U", "V", "W", "X", "Y", "Z">>
LowerSeq == <<"a", "b", "c", "d", "e", "f", "g", "h", "i", "j", "k", "l", "m",
              "n", "o", "p", "q", "r", "s", "t", "u", "v", "w", "x", "y", "z">>
DigitSeq == <<"0", "1", "2", "3", "4", "5", "6", "7", "8", "9">>

\* the value of a digit
DigitValue(c) == (CHOOSE k \in 1..Len(DigitSeq) : DigitSeq[k] = c) - 1

ToLowerChar(c) ==
    IF c \in UpperLetters
    THEN LowerSeq[CHOOSE k \in 1..Len(UpperSeq) : UpperSeq[k] = c]
    ELSE c

\* String.prototype.toLowerCase
ToLowerCase(s) == [k \in 1..Len(s) |-> ToLowerChar(s[k])]

\* String(n) of an integer n
RECURSIVE NatToStr(_)
NatToStr(n) ==
    IF n < 10 THEN <<DigitSeq[n + 1]>>
    ELSE Append(NatToStr(n \div 10), DigitSeq[(n % 10) + 1])

NumToStr(n) == IF n < 0 THEN <<"-">> \o NatToStr(0 - n) ELSE NatToStr(n)

\* Boolean(x) of a string or undefined
Truthy(s) == s # Undefined /\ s # <<>>

(***************************************************************************)
(* slugify                                                                 *)
(***************************************************************************)
\* parts.filter(Boolean).join(" ")
RECURSIVE JoinTruthy(_)
JoinTruthy(parts) ==
    IF parts = <<>> THEN <<>>
    ELSE IF ~Truthy(Head(parts)) THEN JoinTruthy(Tail(parts))
    ELSE LET rest == JoinTruthy(Tail(parts)) IN
         IF \E k \in 1..Len(Tail(parts)) : Truthy(Tail(parts)[k])
         THEN Head(parts) \o <<SPACE>> \o rest
         ELSE Head(parts)

\* the class [a-z0-9] under the i flag
IsSlugChar(c) == c \in LowerLetters \cup UpperLetters \cup Digits

\* replace(/[^a-z0-9]+/gi, "-"): each maximal run of other characters becomes one dash
RECURSIVE ReplaceRuns(_, _)
ReplaceRuns(s, inRun) ==
    IF s = <<>> THEN <<>>
    ELSE IF IsSlugChar(Head(s)) THEN <<Head(s)>> \o ReplaceRuns(Tail(s), FALSE)
    ELSE IF inRun THEN ReplaceRuns(Tail(s), TRUE)
    ELSE <<"-">> \o ReplaceRuns(Tail(s), TRUE)

\* replace(/^-+|-+$/g, "")
RECURSIVE StripDashes(_)
StripDashes(s) ==
    IF s # <<>> /\ Head(s) = "-" THEN StripDashes(Tail(s))
    ELSE IF s # <<>> /\ Last(s) = "-" THEN StripDashes(SubSeq(s, 1, Len(s) - 1))
    ELSE s

slugify(parts) ==
    LET s == ToLowerCase(Trim(JoinTruthy(parts)))
        t == StripDashes(ReplaceRuns(s, FALSE))
    IN  IF t = <<>> THEN <<"r", "o", "w">> ELSE t

(***************************************************************************)
(* parseCSV, part 1: the character loop building the rows.                 *)
(* A parser state p is the tuple of the loop's locals.                     *)
(***************************************************************************)
\* the locals before the first iteration, csv being the text without its BOM
ParserBegin(s) ==
    [csv |-> s, i |-> 0, field |-> <<>>, row |-> <<>>, rows |-> <<>>, inQuotes |-> FALSE]

ParserStart(text) == ParserBegin(stripBOM(text))

\* (mutant) a comma ends the field inside quotes too
QuotedStepCommaSplits(p) ==
    LET ch == At(p.csv, p.i) IN
    IF ch = COMMA
    THEN [p EXCEPT !.row = Append(@, Trim(p.field)), !.field = <<>>, !.i = @ + 1]
    ELSE IF ch = QUOTE
    THEN IF At(p.csv, p.i + 1) = QUOTE
         THEN [p EXCEPT !.field = Append(@, QUOTE), !.i = @ + 2]
         ELSE [p EXCEPT !.inQuotes = FALSE, !.i = @ + 1]
    ELSE [p EXCEPT !.field = Append(@, ch), !.i = @ + 1]

\* (mutant) a quote always closes the quoted part, doubled or not
QuotedStepNoEscape(p) ==
    LET ch == At(p.csv, p.i) IN
    IF ch = QUOTE THEN [p EXCEPT !.inQuotes = FALSE, !.i = @ + 1]
    ELSE [p EXCEPT !.field = Append(@, ch), !.i = @ + 1]

\* (mutant) the closing quote is left to be read again
QuotedStepQuoteStalls(p) ==
    LET ch == At(p.csv, p.i) IN
    IF ch = QUOTE
    THEN IF At(p.csv, p.i + 1) = QUOTE
         THEN [p EXCEPT !.field = Append(@, QUOTE), !.i = @ + 2]
         ELSE [p EXCEPT !.inQuotes = FALSE]
    ELSE [p EXCEPT !.field = Append(@, ch), !.i = @ + 1]

\* (mutant) a row separator ends the row inside quotes too
QuotedStepBreakEndsRow(p) ==
    LET ch == At(p.csv, p.i) IN
    IF ch = QUOTE
    THEN IF At(p.csv, p.i + 1) = QUOTE
         THEN [p EXCEPT !.field = Append(@, QUOTE), !.i = @ + 2]
         ELSE [p EXCEPT !.inQuotes = FALSE, !.i = @ + 1]
    ELSE IF ch = LF \/ ch = CR
    THEN LET r == Append(p.row, Trim(p.field))
         IN  [p EXCEPT !.i = @ + 1, !.field = <<>>, !.row = <<>>,
                       !.rows = IF \E k \in 1..Len(r) : Len(r[k]) > 0
                                THEN Append(@, r) ELSE @]
    ELSE [p EXCEPT !.field = Append(@, ch), !.i = @ + 1]

\* one iteration with inQuotes = true
QuotedStep(p) ==
    LET ch == At(p.csv, p.i) IN
    IF ch = QUOTE
    THEN IF At(p.csv, p.i + 1) = QUOTE
         THEN [p EXCEPT !.field = Append(@, QUOTE), !.i = @ + 2]
         ELSE [p EXCEPT !.inQuotes = FALSE, !.i = @ + 1]
    ELSE [p EXCEPT !.field = Append(@, ch), !.i = @ + 1]

\* the row-break branch: row.some(c => c.length > 0)
RowHasContent(r) == \E k \in 1..Len(r) : Len(r[k]) > 0

\* (mutant) only \n, alone or after \r, ends a row: a bare \r is content
UnquotedStepBareCRIsContent(p) ==
    LET ch == At(p.csv, p.i) IN
    IF ch = QUOTE THEN [p EXCEPT !.inQuotes = TRUE, !.i = @ + 1]
    ELSE IF ch = COMMA
    THEN [p EXCEPT !.row = Append(@, Trim(p.field)), !.field = <<>>, !.i = @ + 1]
    ELSE IF ch = LF \/ (ch = CR /\ At(p.csv, p.i + 1) = LF)
    THEN LET j == IF ch = CR THEN p.i + 1 ELSE p.i
             r == Append(p.row, Trim(p.field))
         IN  [p EXCEPT !.i = j + 1, !.field = <<>>, !.row = <<>>,
                       !.rows = IF \E k \in 1..Len(r) : Len(r[k]) > 0
                                THEN Append(@, r) ELSE @]
    ELSE [p EXCEPT !.field = Append(@, ch), !.i = @ + 1]

\* one iteration with inQuotes = false
UnquotedStep(p) ==
    LET ch == At(p.csv, p.i) IN
    IF ch = QUOTE THEN [p EXCEPT !.inQuotes = TRUE, !.i = @ + 1]
    ELSE IF ch = COMMA
    THEN [p EXCEPT !.row = Append(@, Trim(p.field)), !.field = <<>>, !.i = @ + 1]
    ELSE IF ch = LF \/ ch = CR
    THEN LET j == IF ch = CR /\ At(p.csv, p.i + 1) = LF THEN p.i + 1 ELSE p.i
             r == Append(p.row, Trim(p.field))
         IN  [p EXCEPT !.i = j + 1, !.field = <<>>, !.row = <<>>,
                       !.rows = IF RowHasContent(r) THEN Append(@, r) ELSE @]
    ELSE [p EXCEPT !.field = Append(@, ch), !.i = @ + 1]

LoopStep(p) == IF p.inQuotes THEN QuotedStep(p) ELSE UnquotedStep(p)

\* (mutant) the last row is pushed under the condition of the row-break branch
FinishRowsDropsEmpty(p) ==
    LET r == Append(p.row, Trim(p.field)) IN
    IF \E k \in 1..Len(r) : Len(r[k]) > 0 THEN Append(p.rows, r) ELSE p.rows

\* after the loop: the last field and the last row
FinishRows(p) ==
    LET r == Append(p.row, Trim(p.field)) IN
    IF Len(r) > 1 \/ (Len(r) = 1 /\ r[1] # <<>>) THEN Append(p.rows, r) ELSE p.rows

RECURSIVE RunLoop(_)
RunLoop(p) == IF p.i < Len(p.csv) THEN RunLoop(LoopStep(p)) ELSE p

\* the rows parseCSV builds from a text
ParseRows(text) == FinishRows(RunLoop(ParserStart(text)))


(***************************************************************************)
(* parseBool, normalizePC and parseCSV, part 2: the header and the records *)
(***************************************************************************)
IMG_FALLBACK == <<"d", "a", "t", "a", ":", "i", "m", "a", "g", "e">>

ToUpperChar(c) ==
    IF c \in LowerLetters
    THEN UpperSeq[CHOOSE k \in 1..Len(LowerSeq) : LowerSeq[k] = c]
    ELSE c

\* String.prototype.toUpperCase
ToUpperCase(s) == [k \in 1..Len(s) |-> ToUpperChar(s[k])]

\* the value of a text of digits
RECURSIVE DigitsValue(_)
DigitsValue(s) ==
    IF s = <<>> THEN 0 ELSE DigitsValue(SubSeq(s, 1, Len(s) - 1)) * 10 + DigitValue(Last(s))

parseBool(x) ==
    IF ~Truthy(x) THEN "undefined"
    ELSE LET s == ToLowerCase(Trim(x)) IN
         IF s = <<"t", "r", "u", "e">> \/ s = <<"1">> THEN "true"
         ELSE IF s = <<"f", "a", "l", "s", "e">> \/ s = <<"0">> THEN "false"
         ELSE "undefined"

\* (mutant) any run of white space may stand between PSA and the digits
PsaDigitsAfterAnyGap(trimmed) ==
    IF Len(trimmed) < 4 \/ SubSeq(trimmed, 1, 3) # <<"P", "S", "A">> THEN Undefined
    ELSE LET ds == TrimStart(SubSeq(trimmed, 4, Len(trimmed)))
         IN  IF Len(ds) \in {1, 2} /\ \A k \in 1..Len(ds) : ds[k] \in Digits
             THEN ds ELSE Undefined

\* the text after "PSA" and an optional white-space character, when trimmed
\* matches /^PSA\s?(\d{1,2})$/; Undefined when it does not
PsaDigits(trimmed) ==
    IF Len(trimmed) < 4 \/ SubSeq(trimmed, 1, 3) # <<"P", "S", "A">> THEN Undefined
    ELSE LET rest == SubSeq(trimmed, 4, Len(trimmed))
             ds == IF IsSpace(Head(rest)) THEN Tail(rest) ELSE rest
         IN  IF Len(ds) \in {1, 2} /\ \A k \in 1..Len(ds) : ds[k] \in Digits
             THEN ds ELSE Undefined

normalizePC(value) ==
    IF ~Truthy(value) THEN Undefined
    ELSE LET trimmed == ToUpperCase(Trim(value)) IN
         IF trimmed = <<>> THEN Undefined
         ELSE IF trimmed = <<"R", "A", "W">> THEN <<"R", "A", "W">>
         ELSE IF PsaDigits(trimmed) = Undefined THEN Undefined
         ELSE LET grade == DigitsValue(PsaDigits(trimmed)) IN
              IF grade < 1 \/ grade > 10 THEN Undefined
              ELSE <<"P", "S", "A">> \o NatToStr(grade)

\* Number.parseInt(s, 10), NaN being replaced by 0 as the year is: leading
\* white space, an optional sign, then the longest run of digits
RECURSIVE LeadingDigits(_)
LeadingDigits(s) ==
    IF s # <<>> /\ Head(s) \in Digits THEN <<Head(s)>> \o LeadingDigits(Tail(s)) ELSE <<>>

ParseIntOr0(raw) ==
    LET s == TrimStart(raw)
        negative == s # <<>> /\ Head(s) = "-"
        body == IF s # <<>> /\ Head(s) \in {"-", "+"} THEN Tail(s) ELSE s
        ds == LeadingDigits(body)
    IN  IF ds = <<>> THEN 0
        ELSE IF negative THEN 0 - DigitsValue(ds) ELSE DigitsValue(ds)

\* typesField.split('|').map(t => t.trim()).filter(Boolean)
RECURSIVE SplitTypes(_, _)
SplitTypes(s, cur) ==
    IF s = <<>> THEN (IF Trim(cur) # <<>> THEN <<Trim(cur)>> ELSE <<>>)
    ELSE IF Head(s) = "|"
    THEN (IF Trim(cur) # <<>> THEN <<Trim(cur)>> ELSE <<>>) \o SplitTypes(Tail(s), <<>>)
    ELSE SplitTypes(Tail(s), Append(cur, Head(s)))

\* Array.prototype.indexOf, 0-based, -1 when absent
IndexOf(seq, x) ==
    IF \E k \in 1..Len(seq) : seq[k] = x
    THEN (CHOOSE k \in 1..Len(seq) : seq[k] = x /\ \A m \in 1..(k - 1) : seq[m] # x) - 1
    ELSE -1

\* the primary name of each column, then its aliases in order
ColumnNames ==
    [ id |-> <<<<"i", "d">>, <<"c", "a", "r", "d", "_", "i", "d">>>>,
      nameEN |-> <<<<"n", "a", "m", "e", SPACE, "e", "n">>, <<"n", "a", "m", "e">>>>,
      nameJP |-> <<<<"n", "a", "m", "e", SPACE, "j", "p">>,
            <<"n", "a", "m", "e", "_", "j", "p">>>>,
      notesEN |-> <<<<"n", "o", "t", "e", "s", SPACE, "e", "n">>, <<"n", "o", "t", "e", "s">>>>,
      notesJP |-> <<<<"n", "o", "t", "e", "s", SPACE, "j", "p">>,
            <<"n", "o", "t", "e", "s", "_", "j", "p">>>>,
      originEN |-> <<<<"o", "r", "i", "g", "i", "n", SPACE, "e", "n">>,
            <<"o", "r", "i", "g", "i", "n">>>>,
      originJP |-> <<<<"o", "r", "i", "g", "i", "n", SPACE, "j", "p">>,
            <<"o", "r", "i", "g", "i", "n", "_", "j", "p">>>>,
      number |-> <<<<"n", "u", "m", "b", "e", "r">>, <<"n", "o">>,
            <<"c", "a", "r", "d", SPACE, "n", "o">>, <<"c", "a", "r", "d", SPACE, "#">>>>,
      set |-> <<<<"s", "e", "t">>, <<"s", "e", "t", SPACE, "n", "a", "m", "e">>,
            <<"s", "e", "r", "i", "e", "s">>>>,
      year |-> <<<<"y", "e", "a", "r">>>>,
      release |-> <<<<"r", "e", "l", "e", "a", "s", "e">>,
            <<"r", "e", "l", "e", "a", "s", "e", SPACE, "d", "a", "t", "e">>,
            <<"r", "e", "l", "e", "a", "s", "e", "d">>>>,
      rarity |-> <<<<"r", "a", "r", "i", "t", "y">>>>,
      types |-> <<<<"t", "y", "p", "e", "s">>>>,
      language |-> <<<<"l", "a", "n", "g", "u", "a", "g", "e">>, <<"l", "a", "n", "g">>>>,
      image |-> <<<<"i", "m", "a", "g", "e", SPACE, "f", "r", "o", "n", "t">>,
            <<"i", "m", "a", "g", "e">>,
            <<"i", "m", "a", "g", "e", "_", "f", "r", "o", "n", "t">>,
            <<"i", "m", "a", "g", "e", SPACE, "u", "r", "l">>,
            <<"i", "m", "a", "g", "e", "_", "u", "r", "l">>, <<"i", "m", "g">>,
            <<"i", "m", "a", "g", "e", SPACE, "l", "i", "n", "k">>>>,
      imageBack |-> <<<<"i", "m", "a", "g", "e", SPACE, "b", "a", "c", "k">>,
            <<"i", "m", "a", "g", "e", "_", "b", "a", "c", "k">>>>,
      illustrator |-> <<<<"i", "l", "l", "u", "s", "t", "r", "a", "t", "o", "r">>,
            <<"a", "r", "t", "i", "s", "t">>>>,
      era |-> <<<<"e", "r", "a">>>>,
      isMew |-> <<<<"i", "s", "M", "e", "w">>, <<"i", "s", "m", "e", "w">>>>,
      isCameo |-> <<<<"i", "s", "C", "a", "m", "e", "o">>,
            <<"i", "s", "c", "a", "m", "e", "o">>>>,
      isIntl |-> <<<<"i", "s", "I", "n", "t", "l">>, <<"i", "s", "i", "n", "t", "r", "l">>,
            <<"i", "n", "t", "e", "r", "n", "a", "t", "i", "o", "n", "a", "l">>>>,
      edition |-> <<<<"e", "d", "i", "t", "i", "o", "n">>>>,
      pc |-> <<<<"p", "c">>>> ]

\* rows[0].map(h => stripBOM(h).trim()) and its lower-cased copy lc
Headers(hrow) == [k \in 1..Len(hrow) |-> Trim(stripBOM(hrow[k]))]
LowerHeaders(hrow) == [k \in 1..Len(hrow) |-> ToLowerCase(Headers(hrow)[k])]

\* (mutant) the first column whose header is the name or one of the aliases
findIdxByColumn(lc, names) ==
    IF \E k \in 1..Len(lc), n \in 1..Len(names) : lc[k] = ToLowerCase(names[n])
    THEN (CHOOSE k \in 1..Len(lc) :
              /\ \E n \in 1..Len(names) : lc[k] = ToLowerCase(names[n])
              /\ \A m \in 1..(k - 1), n \in 1..Len(names) : lc[m] # ToLowerCase(names[n])) - 1
    ELSE -1

\* findIdx over lc: names holds the primary name first, then the aliases
RECURSIVE findIdx(_, _)
findIdx(lc, names) ==
    IF names = <<>> THEN -1
    ELSE IF IndexOf(lc, ToLowerCase(Head(names))) >= 0
    THEN IndexOf(lc, ToLowerCase(Head(names)))
    ELSE findIdx(lc, Tail(names))

\* (mutant) a lookup past the end of the row gives the row's last cell
getClamped(cols, j) ==
    IF j < 0 \/ Len(cols) = 0 THEN <<>>
    ELSE IF j < Len(cols) THEN cols[j + 1] ELSE cols[Len(cols)]

\* get(j) of one row
get(cols, j) == IF j >= 0 /\ j < Len(cols) THEN cols[j + 1] ELSE <<>>

\* the idx... constants: the column resolved for each field
ColumnIndices(lc) == [fld \in DOMAIN ColumnNames |-> findIdx(lc, ColumnNames[fld])]

\* the cell of a row in the column resolved for a field, ix being the indices
Cell(ix, cols, fld) == get(cols, ix[fld])

\* x || undefined
OrUndefined(s) == IF s = <<>> THEN Undefined ELSE s

\* x || y
OrElse(s, t) == IF Truthy(s) THEN s ELSE t

\* (mutant) only the English name counts as a name
HasNameEnglishOnly(ix, cols) == Cell(ix, cols, "nameEN") # <<>>

\* whether the loop body reaches out.push for the row: if (!nameEN) continue
HasName(ix, cols) == OrElse(Cell(ix, cols, "nameEN"), Cell(ix, cols, "nameJP")) # <<>>

\* the record built from row r (0-based in rows, so r >= 1) with cells cols
BuildCard(ix, cols, r) ==
    LET nameEN == OrElse(Cell(ix, cols, "nameEN"), Cell(ix, cols, "nameJP")) IN
    [id |-> OrElse(Cell(ix, cols, "id"),
                   slugify(<<nameEN, Cell(ix, cols, "set"), Cell(ix, cols, "number"),
                             NumToStr(r)>>)),
     nameEN |-> nameEN,
     nameJP |-> OrUndefined(Cell(ix, cols, "nameJP")),
     notesEN |-> OrUndefined(Cell(ix, cols, "notesEN")),
     notesJP |-> OrUndefined(Cell(ix, cols, "notesJP")),
     originEN |-> OrUndefined(Cell(ix, cols, "originEN")),
     originJP |-> OrUndefined(Cell(ix, cols, "originJP")),
     number |-> Cell(ix, cols, "number"),
     set |-> Cell(ix, cols, "set"),
     year |-> ParseIntOr0(Cell(ix, cols, "year")),
     rarity |-> OrUndefined(Cell(ix, cols, "rarity")),
     types |-> SplitTypes(Cell(ix, cols, "types"), <<>>),
     language |-> OrUndefined(Cell(ix, cols, "language")),
     image |-> OrElse(Cell(ix, cols, "image"), IMG_FALLBACK),
     imageBack |-> OrUndefined(Cell(ix, cols, "imageBack")),
     illustrator |-> OrUndefined(Cell(ix, cols, "illustrator")),
     era |-> OrUndefined(Cell(ix, cols, "era")),
     release |-> OrUndefined(Cell(ix, cols, "release")),
     isMew |-> parseBool(Cell(ix, cols, "isMew")),
     isCameo |-> parseBool(Cell(ix, cols, "isCameo")),
     isIntl |-> parseBool(Cell(ix, cols, "isIntl")),
     edition |-> OrUndefined(Cell(ix, cols, "edition")),
     pc |-> normalizePC(Cell(ix, cols, "pc"))]

\* for (let r = 1; r < rows.length; r++): the records of rows r.. of rs
RECURSIVE BuildFrom(_, _, _)
BuildFrom(ix, rs, r) ==
    IF r >= Len(rs) THEN <<>>
    ELSE IF HasName(ix, rs[r + 1])
    THEN <<BuildCard(ix, rs[r + 1], r)>> \o BuildFrom(ix, rs, r + 1)
    ELSE BuildFrom(ix, rs, r + 1)

\* the records parseCSV builds from the rows
BuildRecords(rs) == IF Len(rs) < 2 THEN <<>> ELSE BuildFrom(ColumnIndices(LowerHeaders(rs[1])), rs, 1)

parseCSV(text) == BuildRecords(ParseRows(text))

(***************************************************************************)
(* mergeCardsNoDedupe                                                      *)
(***************************************************************************)
Flags == {"isMew", "isCameo", "isIntl"}

\* (mutant) one prefix for every source
prefixSame(flag) == <<"m", "e", "w">>

prefix(flag) ==
    IF flag = "isMew" THEN <<"m", "e", "w">>
    ELSE IF flag = "isCameo" THEN <<"c", "a", "m", "e", "o">>
    ELSE <<"i", "n", "t", "l">>

\* (mutant) an explicit flag of the record wins over the source
MergeRecordKeepsFlag(c, flag, index) ==
    [c EXCEPT !.id = slugify(<<prefix(flag), c.nameEN, c.set, c.number,
                                NumToStr(c.year), NumToStr(index)>>),
              ![flag] = IF c[flag] = "undefined" THEN "true" ELSE c[flag]]

\* the forEach callback: { ...c, id: uniqueId, [g.flag]: true }
MergeRecord(c, flag, index) ==
    [c EXCEPT !.id = slugify(<<prefix(flag), c.nameEN, c.set, c.number,
                                NumToStr(c.year), NumToStr(index)>>),
              ![flag] = "true"]

\* the records one group appends to out, in forEach order
MergeGroup(g) == [k \in 1..Len(g.cards) |-> MergeRecord(g.cards[k], g.flag, k - 1)]

RECURSIVE MergeFrom(_, _)
MergeFrom(gs, out) ==
    IF gs = <<>> THEN out
    ELSE MergeFrom(Tail(gs), out \o MergeGroup(Head(gs)))

\* (mutant) a record already in the output is not added again
SameCard(a, b) == a.nameEN = b.nameEN /\ a.set = b.set /\ a.number = b.number

RECURSIVE MergeDedupeFrom(_, _)
MergeDedupeFrom(cs, out) ==
    IF cs = <<>> THEN out
    ELSE MergeDedupeFrom(Tail(cs),
             IF \E k \in 1..Len(out) : SameCard(out[k], Head(cs))
             THEN out ELSE Append(out, Head(cs)))

mergeCardsDedupe(gs) == MergeDedupeFrom(MergeFrom(gs, <<>>), <<>>)

\* (mutant) each group is put in front of the output
RECURSIVE MergeUnshift(_, _)
MergeUnshift(gs, out) ==
    IF gs = <<>> THEN out
    ELSE MergeUnshift(Tail(gs), MergeGroup(Head(gs)) \o out)

mergeCardsReversed(gs) == MergeUnshift(gs, <<>>)

mergeCardsNoDedupe(gs) == MergeFrom(gs, <<>>)

(***************************************************************************)
(* releaseTs and applyFilters                                              *)
(***************************************************************************)
\* Number.POSITIVE_INFINITY: above every timestamp of the model
Infinity == 1000000000

\* Date.parse on the release texts of the model: a text of four digits is the
\* year it names (its 1 January, in days, a year being 365 of them); for any
\* other text the result is NaN
DaysPerYear == 365
DateParses(s) == Len(s) = 4 /\ \A k \in 1..4 : s[k] \in Digits
DateParse(s) ==
    (DigitValue(s[1]) * 1000 + DigitValue(s[2]) * 100 + DigitValue(s[3]) * 10
        + DigitValue(s[4])) * DaysPerYear

\* new Date(year, 0, 1).getTime(): a year from 0 to 99 counts from 1900
NewDateJan1(year) == (IF year >= 0 /\ year <= 99 THEN 1900 + year ELSE year) * DaysPerYear

releaseTs(card) ==
    IF Truthy(card.release) /\ DateParses(card.release)
    THEN DateParse(card.release)
    ELSE IF card.year > 0 THEN NewDateJan1(card.year)
    ELSE Infinity

Sign(n) == IF n < 0 THEN -1 ELSE IF n > 0 THEN 1 ELSE 0

\* x - y as a comparator result; Infinity - Infinity is NaN, which sort takes as 0
NumCompare(x, y) ==
    IF x = Infinity /\ y = Infinity THEN 0
    ELSE IF x = Infinity THEN 1
    ELSE IF y = Infinity THEN -1
    ELSE Sign(x - y)

\* localeCompare on the characters of the model: by first difference, a
\* prefix before its extensions, characters in the order of CollationSeq
CollationSeq == <<SPACE, "0", "1", "2", "9", "a", "A", "b", "B", "m", "M", "r", "s",
                  "z", "u30CE", "u30DF", "u7C73">>
CollationRank(c) ==
    IF \E k \in 1..Len(CollationSeq) : CollationSeq[k] = c
    THEN CHOOSE k \in 1..Len(CollationSeq) : CollationSeq[k] = c
    ELSE 0

RECURSIVE localeCompare(_, _)
localeCompare(a, b) ==
    IF a = <<>> /\ b = <<>> THEN 0
    ELSE IF a = <<>> THEN -1
    ELSE IF b = <<>> THEN 1
    ELSE IF CollationRank(Head(a)) # CollationRank(Head(b))
    THEN Sign(CollationRank(Head(a)) - CollationRank(Head(b)))
    ELSE localeCompare(Tail(a), Tail(b))

SortKeys == {"releaseAsc", "releaseDesc", "yearDesc", "yearAsc", "name", "rarity"}

\* c.rarity || ""
OrEmpty(s) == IF Truthy(s) THEN s ELSE <<>>

\* the comparator the switch on f.sortBy hands to sort
Comparator(sortBy, a, b) ==
    IF sortBy = "releaseAsc" THEN NumCompare(releaseTs(a), releaseTs(b))
    ELSE IF sortBy = "releaseDesc" THEN NumCompare(releaseTs(b), releaseTs(a))
    ELSE IF sortBy = "yearAsc" THEN Sign(a.year - b.year)
    ELSE IF sortBy = "name" THEN localeCompare(a.nameEN, b.nameEN)
    ELSE IF sortBy = "rarity" THEN localeCompare(OrEmpty(a.rarity), OrEmpty(b.rarity))
    ELSE Sign(b.year - a.year)

\* Array.prototype.sort: a stable sort, as an insertion sort
RECURSIVE InsertSorted(_, _, _)
InsertSorted(sortBy, sorted, c) ==
    IF sorted = <<>> THEN <<c>>
    ELSE IF Comparator(sortBy, Last(sorted), c) <= 0 THEN Append(sorted, c)
    ELSE Append(InsertSorted(sortBy, SubSeq(sorted, 1, Len(sorted) - 1), c), Last(sorted))

RECURSIVE SortFrom(_, _, _)
SortFrom(sortBy, items, sorted) ==
    IF items = <<>> THEN sorted
    ELSE SortFrom(sortBy, Tail(items), InsertSorted(sortBy, sorted, Head(items)))

\* (mutant) the switch on f.sortBy is skipped
SortSkipped(sortBy, items) == items

Sort(sortBy, items) == SortFrom(sortBy, items, <<>>)

\* String.prototype.includes
Includes(s, t) == \E k \in 0..(Len(s) - Len(t)) : SubSeq(s, k + 1, k + Len(t)) = t

\* (mutant) the search looks at the English fields only
SearchFieldsEnglishOnly(c) ==
    <<c.nameEN, c.number, c.set, c.rarity, c.notesEN, c.originEN>>

\* the fields the search looks at
SearchFields(c) ==
    <<c.nameEN, c.nameJP, c.number, c.set, c.rarity, c.notesEN, c.notesJP,
      c.originEN, c.originJP>>

\* the callback of the first filter: .filter(Boolean).some(...includes(term))
MatchesQuery(c, flt) ==
    LET term == ToLowerCase(Trim(flt.q))
        vs == SearchFields(c)
    IN  \E k \in 1..Len(vs) : Truthy(vs[k]) /\ Includes(ToLowerCase(vs[k]), term)

\* items.filter(c => [...].filter(Boolean).some(...))
RECURSIVE FilterQuery(_, _)
FilterQuery(items, flt) ==
    IF items = <<>> THEN <<>>
    ELSE IF MatchesQuery(Head(items), flt)
    THEN <<Head(items)>> \o FilterQuery(Tail(items), flt)
    ELSE FilterQuery(Tail(items), flt)

\* (mutant) every enabled toggle must match
MatchesTogglesAll(c, flt) ==
    /\ flt.mew => c.isMew = "true"
    /\ flt.cameo => c.isCameo = "true"
    /\ flt.intl => c.isIntl = "true"

\* the callback of the second filter
MatchesToggles(c, flt) ==
    \/ flt.mew /\ c.isMew = "true"
    \/ flt.cameo /\ c.isCameo = "true"
    \/ flt.intl /\ c.isIntl = "true"

\* items.filter(c => (f.mew && c.isMew) || ...)
RECURSIVE FilterToggles(_, _)
FilterToggles(items, flt) ==
    IF items = <<>> THEN <<>>
    ELSE IF MatchesToggles(Head(items), flt)
    THEN <<Head(items)>> \o FilterToggles(Tail(items), flt)
    ELSE FilterToggles(Tail(items), flt)

\* (mutant) with no toggle on, the category filter is skipped
applyFiltersNoToggleShowsAll(cs, flt) ==
    LET found == IF Trim(flt.q) # <<>> THEN FilterQuery(cs, flt) ELSE cs
        anyTag == flt.mew \/ flt.cameo \/ flt.intl
    IN  IF ~anyTag THEN Sort(flt.sortBy, found)
        ELSE Sort(flt.sortBy, FilterToggles(found, flt))

applyFilters(cs, flt) ==
    LET found == IF Trim(flt.q) # <<>> THEN FilterQuery(cs, flt) ELSE cs
        anyTag == flt.mew \/ flt.cameo \/ flt.intl
    IN  IF ~anyTag THEN <<>>
        ELSE Sort(flt.sortBy, FilterToggles(found, flt))

\* (mutant) the sort is done on the caller's array
CardsAfterSortInPlace(cs, flt) == Sort(flt.sortBy, cs)

\* the caller's array after the call: let items = [...cards] copies it, and
\* filter and sort only ever work on items
CardsAfter(cs, flt) == cs


(***************************************************************************)
(* PokeCardGallery: the fetch round and the image preload, pure parts.     *)
(***************************************************************************)
\* remoteCards is null or an array of records
Null == [null |-> TRUE, cards |-> <<>>]
Cards(cs) == [null |-> FALSE, cards |-> cs]

\* the sources array of fetchAllSheets, in its order
Sources == <<"isMew", "isCameo", "isIntl">>

AUTH_FAILED_TEXT == <<"E", "r", "r", "o", "r", ":", SPACE,
                    "A", "u", "t", "h", "e", "n", "t", "i", "c", "a", "t", "i", "o", "n", SPACE, "F", "a", "i", "l", "e", "d">>
ERROR_PREFIX == <<"E", "r", "r", "o", "r", ":">>

\* String.prototype.startsWith
StartsWith(s, t) == Len(s) >= Len(t) /\ SubSeq(s, 1, Len(t)) = t

Pending == [status |-> "pending", reason |-> "", value |-> <<>>]
Rejected(why) == [status |-> "rejected", reason |-> why, value |-> <<>>]
Fulfilled(text) == [status |-> "fulfilled", reason |-> "", value |-> text]

\* how one promise of the round settles for a response: fetch itself rejects
\* on a network failure (failed), otherwise the then-callback decides
FetchOutcome(resp) ==
    IF resp.failed THEN Rejected("network")
    ELSE IF StartsWith(resp.text, AUTH_FAILED_TEXT) THEN Rejected("Authentication Failed")
    ELSE IF ~resp.ok /\ ~StartsWith(resp.text, ERROR_PREFIX) THEN Rejected("Failed to fetch sheet")
    ELSE Fulfilled(resp.text)

\* (mutant) the round fails only when every source refused the password
AuthFailedEverywhere(res) ==
    \A k \in 1..Len(res) :
        res[k].status = "rejected" /\ res[k].reason = "Authentication Failed"

\* results.some(r => r.status === 'rejected' && r.reason.message === "Authentication Failed")
AuthFailed(res) ==
    \E k \in 1..Len(res) :
        res[k].status = "rejected" /\ res[k].reason = "Authentication Failed"

\* (mutant) the first rejected source ends the reduce: no group is formed
RECURSIVE SuccessfulGroupsFrom(_, _)
SuccessfulGroupsAbortOnReject(res) ==
    IF \E k \in 1..Len(res) : res[k].status = "rejected" THEN <<>>
    ELSE SuccessfulGroupsFrom(res, 1)

\* (mutant) a response that parses to no record forms a group all the same
RECURSIVE SuccessfulGroupsKeepEmptyFrom(_, _)
SuccessfulGroupsKeepEmptyFrom(res, k) ==
    IF k > Len(res) THEN <<>>
    ELSE IF res[k].status = "fulfilled" /\ res[k].value # <<>>
    THEN <<[cards |-> parseCSV(res[k].value), flag |-> Sources[k]]>>
             \o SuccessfulGroupsKeepEmptyFrom(res, k + 1)
    ELSE SuccessfulGroupsKeepEmptyFrom(res, k + 1)

SuccessfulGroupsKeepEmpty(res) == SuccessfulGroupsKeepEmptyFrom(res, 1)

\* the reduce over results: a group for each fulfilled, non-empty response
\* that parses to at least one record
SuccessfulGroupsFrom(res, k) ==
    IF k > Len(res) THEN <<>>
    ELSE IF res[k].status = "fulfilled" /\ res[k].value # <<>>
            /\ Len(parseCSV(res[k].value)) > 0
    THEN <<[cards |-> parseCSV(res[k].value), flag |-> Sources[k]]>>
             \o SuccessfulGroupsFrom(res, k + 1)
    ELSE SuccessfulGroupsFrom(res, k + 1)

SuccessfulGroups(res) == SuccessfulGroupsFrom(res, 1)

\* sourceCards.flatMap(card => [card.image, card.imageBack]).filter(Boolean).length
RECURSIVE ImageCount(_)
ImageCount(cs) ==
    IF cs = <<>> THEN 0
    ELSE (IF Truthy(Head(cs).image) THEN 1 ELSE 0)
         + (IF Truthy(Head(cs).imageBack) THEN 1 ELSE 0) + ImageCount(Tail(cs))

\* Math.round((loadedCount / totalCount) * 100)
Progress(loaded, total) == (200 * loaded + total) \div (2 * total)

(***************************************************************************)
(* State.                                                                  *)
(***************************************************************************)
VARIABLES
    \* parseCSV's character loop: its locals, its position (ppc) and the index
    \* at which the quote that is open was read (quoteAt, -1 before any quote),
    \* the number of iterations run (iter)
    csv, i, field, row, rows, inQuotes, ppc, quoteAt, iter,
    \* parseCSV's record loop: the resolved column indices (idxId, idxNameEN,
    \* ...), the loop variable r and the array out
    colIdx, recIdx, parsed,
    \* one call of normalizePC: its argument, its result, its position
    pcValue, pcOut, gpc,
    \* one call of mergeCardsNoDedupe: its argument, its result, its position
    groups, merged, mpc,
    \* the query engine: the collection, the filter state, the memoised result
    cards, f, filtered,
    \* PokeCardGallery's React state
    remoteCards, dataStatus, loadingProgress, imagesLoaded,
    isAuthenticated, authChecked, isAuthenticating, passwordRequired, password,
    \* its asynchronous work: the getConfig request, the dependencies the two
    \* effects last ran with, the promises of the fetch round and the number of
    \* rounds running, the sources in the order in which their promises settled,
    \* the preload closure, the images and timers outstanding
    configPending, fetchDeps, results, inflight, arrival, imageDeps,
    loadedCount, totalCount, imgPending, timers

parserVars == <<csv, i, field, row, rows, inQuotes, ppc, quoteAt, iter, colIdx, recIdx, parsed>>
mergeVars == <<groups, merged, mpc>>
gradeVars == <<pcValue, pcOut, gpc>>
filterVars == <<cards, f, filtered>>
reactVars == <<remoteCards, dataStatus, loadingProgress, imagesLoaded,
               isAuthenticated, authChecked, isAuthenticating, passwordRequired, password>>
asyncVars == <<configPending, fetchDeps, results, inflight, arrival, imageDeps,
               loadedCount, totalCount, imgPending, timers>>
galleryVars == <<reactVars, asyncVars>>
vars == <<parserVars, gradeVars, mergeVars, filterVars, galleryVars>>

Parser == [csv |-> csv, i |-> i, field |-> field, row |-> row, rows |-> rows,
           inQuotes |-> inQuotes]

DefaultFilter == [q |-> <<>>, mew |-> TRUE, cameo |-> FALSE, intl |-> FALSE,
                  sortBy |-> "releaseAsc"]

\* the column indices before the header is read
NoColumns == [fld \in DOMAIN ColumnNames |-> -1]

\* a component that a specification does not exercise
ParserIdle ==
    /\ csv = <<>> /\ i = 0 /\ field = <<>> /\ row = <<>> /\ rows = <<>>
    /\ inQuotes = FALSE /\ ppc = "idle" /\ quoteAt = -1 /\ iter = 0
    /\ colIdx = NoColumns /\ recIdx = 1 /\ parsed = <<>>

MergeIdle == groups = <<>> /\ merged = <<>> /\ mpc = "idle"

GradeIdle == pcValue = <<>> /\ pcOut = Undefined /\ gpc = "idle"

FilterIdle == cards = <<>> /\ f = DefaultFilter /\ filtered = <<>>

GalleryIdle ==
    /\ remoteCards = Null /\ dataStatus = "loading" /\ loadingProgress = 0
    /\ imagesLoaded = FALSE /\ isAuthenticated = FALSE /\ authChecked = FALSE
    /\ isAuthenticating = FALSE /\ passwordRequired = FALSE /\ password = ""
    /\ configPending = FALSE /\ fetchDeps = <<"", FALSE, FALSE>>
    /\ results = <<Pending, Pending, Pending>> /\ inflight = 0 /\ arrival = <<>>
    /\ imageDeps = <<Null, "loading", FALSE>>
    /\ loadedCount = 0 /\ totalCount = 0 /\ imgPending = 0 /\ timers = 0

(***************************************************************************)
(* The row-parsing loop as a state machine: one action per iteration.      *)
(***************************************************************************)
\* the sequences of n elements of S
RECURSIVE SeqsOfLen(_, _)
SeqsOfLen(S, n) ==
    IF n = 0 THEN {<<>>}
    ELSE {Append(t, x) : t \in SeqsOfLen(S, n - 1), x \in S}

CsvAlphabet == {"a", COMMA, QUOTE, LF, CR, SPACE, BOM}

RECURSIVE TextsUpTo(_, _)
TextsUpTo(alphabet, n) ==
    IF n = 0 THEN {<<>>}
    ELSE LET shorter == TextsUpTo(alphabet, n - 1) IN
         shorter \cup {Append(t, c) : t \in {s \in shorter : Len(s) = n - 1}, c \in alphabet}

\* the cell "He said ""hi"", ok" as it is written in a sheet
QUOTED_CELL ==
    <<QUOTE, "H", "e", SPACE, "s", "a", "i", "d", SPACE, QUOTE, QUOTE, "h", "i", QUOTE,
      QUOTE, COMMA, SPACE, "o", "k", QUOTE>>

\* two rows, the first with a cell that holds \r\n between quotes
QUOTED_BREAK == <<"a", COMMA, QUOTE, "a", CR, LF, "a", QUOTE, LF, "a">>

\* texts longer than the enumerated ones
SampleTexts == {QUOTED_CELL, QUOTED_BREAK}

ParserInit ==
    /\ \E text \in TextsUpTo(CsvAlphabet, MaxLen) \cup SampleTexts : csv = stripBOM(text)
    /\ i = 0
    /\ field = <<>>
    /\ row = <<>>
    /\ rows = <<>>
    /\ inQuotes = FALSE
    /\ ppc = "loop"
    /\ quoteAt = -1 /\ iter = 0
    /\ colIdx = NoColumns /\ recIdx = 1 /\ parsed = <<>>
    /\ GradeIdle /\ MergeIdle /\ FilterIdle /\ GalleryIdle

\* one iteration of while (i < csv.length)
ParserIterate ==
    /\ ppc = "loop"
    /\ i < Len(csv)
    /\ LET q == LoopStep(Parser) IN
       /\ i' = q.i
       /\ field' = q.field
       /\ row' = q.row
       /\ rows' = q.rows
       /\ inQuotes' = q.inQuotes
       /\ quoteAt' = IF ~inQuotes /\ q.inQuotes THEN i ELSE quoteAt
    /\ iter' = iter + 1
    /\ UNCHANGED <<csv, ppc, colIdx, recIdx, parsed, gradeVars, mergeVars, filterVars, galleryVars>>

\* the loop condition fails: push the last field and the last row
ParserFinish ==
    /\ ppc = "loop"
    /\ i >= Len(csv)
    /\ rows' = FinishRows(Parser)
    /\ row' = Append(row, Trim(field))
    /\ ppc' = "done"
    /\ UNCHANGED <<csv, i, field, inQuotes, quoteAt, iter, colIdx, recIdx, parsed,
                   gradeVars, mergeVars, filterVars, galleryVars>>

ParserNext == ParserIterate \/ ParserFinish

SpecParser == ParserInit /\ [][ParserNext]_vars

\* the loop is not suspended: an iteration that is due runs
SpecParserLive == SpecParser /\ WF_vars(ParserNext)

(***************************************************************************)
(* parseCSV from the rows on: column resolution and the record loop.       *)
(***************************************************************************)
\* header cells: a primary name in mixed case, its alias in upper case, the
\* second and the first alias of number, three more columns
HeaderCells ==
    { <<"N", "a", "m", "e", SPACE, "E", "N">>, <<"N", "A", "M", "E">>,
      <<"n", "a", "m", "e", SPACE, "j", "p">>, <<"c", "a", "r", "d", SPACE, "n", "o">>,
      <<"n", "o">>, <<"i", "m", "a", "g", "e", SPACE, "b", "a", "c", "k">>,
      <<"E", "d", "i", "t", "i", "o", "n">> }

\* data rows: three cells, a row without its first cell, a row shorter than
\* the header, a row whose only content is in its third cell
DataRows ==
    { << <<"A">>, <<"u30DF">>, <<"b">> >>, << <<>>, <<"u30DF">> >>, << <<"A">> >>,
      << <<>>, <<>>, <<"c">> >> }

SeqsUpTo(S, n) == UNION { SeqsOfLen(S, k) : k \in 0..n }

\* the row lists the loop hands over: none, or a header row and data rows
RowLists ==
    {<<>>} \cup { <<h>> \o ds : h \in SeqsUpTo(HeaderCells, MaxCols) \ {<<>>},
                                 ds \in SeqsUpTo(DataRows, MaxDataRows) }

RecordsInit ==
    /\ rows \in RowLists
    /\ csv = <<>> /\ i = 0 /\ field = <<>> /\ row = <<>> /\ inQuotes = FALSE
    /\ quoteAt = -1 /\ iter = 0
    /\ ppc = "rows"
    /\ colIdx = NoColumns /\ recIdx = 1 /\ parsed = <<>>
    /\ GradeIdle /\ MergeIdle /\ FilterIdle /\ GalleryIdle

\* if (rows.length < 2) return []
ReturnNoRecords ==
    /\ ppc = "rows"
    /\ Len(rows) < 2
    /\ ppc' = "returned"
    /\ UNCHANGED <<csv, i, field, row, rows, inQuotes, quoteAt, iter, colIdx, recIdx, parsed,
                   gradeVars, mergeVars, filterVars, galleryVars>>

\* headers, lc and the idx... constants
ResolveColumns ==
    /\ ppc = "rows"
    /\ Len(rows) >= 2
    /\ colIdx' = ColumnIndices(LowerHeaders(rows[1]))
    /\ recIdx' = 1
    /\ ppc' = "records"
    /\ UNCHANGED <<csv, i, field, row, rows, inQuotes, quoteAt, iter, parsed,
                   gradeVars, mergeVars, filterVars, galleryVars>>

\* one iteration of for (let r = 1; r < rows.length; r++)
RecordIterate ==
    /\ ppc = "records"
    /\ recIdx < Len(rows)
    /\ parsed' = IF HasName(colIdx, rows[recIdx + 1])
                 THEN Append(parsed, BuildCard(colIdx, rows[recIdx + 1], recIdx))
                 ELSE parsed
    /\ recIdx' = recIdx + 1
    /\ UNCHANGED <<csv, i, field, row, rows, inQuotes, quoteAt, iter, ppc, colIdx,
                   gradeVars, mergeVars, filterVars, galleryVars>>

\* return out
RecordsReturn ==
    /\ ppc = "records"
    /\ recIdx >= Len(rows)
    /\ ppc' = "returned"
    /\ UNCHANGED <<csv, i, field, row, rows, inQuotes, quoteAt, iter, colIdx, recIdx, parsed,
                   gradeVars, mergeVars, filterVars, galleryVars>>

RecordsNext == ReturnNoRecords \/ ResolveColumns \/ RecordIterate \/ RecordsReturn

SpecRecords == RecordsInit /\ [][RecordsNext]_vars

(***************************************************************************)
(* SpecGrade: one call of normalizePC on a grade text: some white space, a *)
(* word, a gap, digits, and a tail.                                        *)
(***************************************************************************)
GradeWords ==
    { <<>>, <<"P", "S", "A">>, <<"p", "s", "a">>, <<"P", "s", "a">>, <<"P", "S">>,
      <<"R", "A", "W">>, <<"r", "a", "w">> }
GradeGaps == TextsUpTo({SPACE, "\t"}, MaxGap)
GradeDigits == TextsUpTo({"0", "1", "9"}, MaxDigits)
GradeTails == { <<>>, <<SPACE>>, <<"x">> }
GradeTexts ==
    { lead \o w \o g \o d \o t :
        lead \in {<<>>, <<SPACE>>}, w \in GradeWords, g \in GradeGaps,
        d \in GradeDigits, t \in GradeTails }

GradeInit ==
    /\ pcValue \in GradeTexts
    /\ pcOut = Undefined
    /\ gpc = "call"
    /\ ParserIdle /\ MergeIdle /\ FilterIdle /\ GalleryIdle

NormalizeGrade ==
    /\ gpc = "call"
    /\ pcOut' = normalizePC(pcValue)
    /\ gpc' = "returned"
    /\ UNCHANGED <<pcValue, parserVars, mergeVars, filterVars, galleryVars>>

GradeNext == NormalizeGrade

SpecGrade == GradeInit /\ [][GradeNext]_vars

(***************************************************************************)
(* One call of mergeCardsNoDedupe on every list of groups within bounds.   *)
(***************************************************************************)
BaseCard ==
    [id |-> <<"x">>, nameEN |-> <<"a">>, nameJP |-> Undefined, number |-> <<>>,
     set |-> <<>>, year |-> 0, rarity |-> Undefined, image |-> <<"p">>,
     imageBack |-> Undefined, notesEN |-> Undefined, notesJP |-> Undefined,
     originEN |-> Undefined, originJP |-> Undefined, release |-> Undefined,
     isMew |-> "undefined", isCameo |-> "undefined", isIntl |-> "undefined",
     edition |-> Undefined, pc |-> Undefined, types |-> <<>>, language |-> Undefined,
     illustrator |-> Undefined, era |-> Undefined]

\* records whose slug parts overlap: the same words split differently over
\* name, set, number and year, a name without ASCII letter or digit, flags set
MergePool ==
    { [BaseCard EXCEPT !.set = <<"1">>, !.isMew = "false", !.isCameo = "true"],
      [BaseCard EXCEPT !.nameEN = <<"a", SPACE, "1">>, !.isIntl = "false"],
      [BaseCard EXCEPT !.nameEN = <<"u30DF">>, !.number = <<"0">>, !.year = 1,
                       !.isMew = "true", !.isCameo = "false"] }

\* the lists of n groups holding at most budget records in all
RECURSIVE GroupLists(_, _)
GroupLists(n, budget) ==
    IF n = 0 THEN {<<>>}
    ELSE UNION { LET first == {[cards |-> cs, flag |-> fl] :
                                  fl \in Flags, cs \in SeqsOfLen(MergePool, k)}
                     others == GroupLists(n - 1, budget - k)
                 IN  {<<g>> \o rest : g \in first, rest \in others} : k \in 0..budget }

MergeInit ==
    /\ \E n \in 0..MaxGroups : groups \in GroupLists(n, MaxMergeCards)
    /\ merged = <<>>
    /\ mpc = "call"
    /\ ParserIdle /\ GradeIdle /\ FilterIdle /\ GalleryIdle

Merge ==
    /\ mpc = "call"
    /\ merged' = mergeCardsNoDedupe(groups)
    /\ mpc' = "returned"
    /\ UNCHANGED <<groups, parserVars, gradeVars, filterVars, galleryVars>>

MergeNext == Merge

SpecMerge == MergeInit /\ [][MergeNext]_vars

(***************************************************************************)
(* The query engine: filtered is applyFilters(cards, f), recomputed after  *)
(* every change of the filter state.                                       *)
(***************************************************************************)
\* records that differ in the field a query can hit, in flags and in dates: a
\* year of four digits, a release before 1905, a year of one digit, no date
FilterPool ==
    { [BaseCard EXCEPT !.id = <<"a">>, !.nameEN = <<"M", "a">>, !.nameJP = <<"u30DF">>,
                       !.number = <<"1">>, !.set = <<"s">>, !.year = 2000,
                       !.isMew = "true"],
      [BaseCard EXCEPT !.id = <<"b">>, !.nameEN = <<"b">>, !.number = <<"2">>,
                       !.rarity = <<"r">>, !.notesJP = <<"u30CE">>,
                       !.originJP = <<"u7C73">>, !.release = <<"1", "9", "0", "0">>,
                       !.isMew = "false", !.isCameo = "true"],
      [BaseCard EXCEPT !.id = <<"c">>, !.nameEN = <<"B">>, !.rarity = <<>>,
                       !.notesEN = <<"m">>, !.originEN = <<"z">>, !.year = 5,
                       !.isMew = "true", !.isIntl = "true"],
      [BaseCard EXCEPT !.id = <<"d">>, !.nameEN = <<"a">>, !.number = <<"9">>,
                       !.isMew = "false"] }

\* one query per search field, the empty and the blank query, a query with
\* blanks around it and upper case in it, and a text only the image holds
Queries ==
    { <<>>, <<SPACE>>, <<"u30DF">>, <<SPACE, "M", SPACE>>, <<"1">>, <<"s">>, <<"r">>,
      <<"u30CE">>, <<"z">>, <<"u7C73">>, <<"p">> }

\* the sort keys and a key that is none of them
SortKeyInputs == SortKeys \cup {"unknown"}

FilterInit ==
    /\ \E n \in 0..MaxCards : cards \in SeqsOfLen(FilterPool, n)
    /\ f = DefaultFilter
    /\ filtered = applyFilters(cards, f)
    /\ ParserIdle /\ GradeIdle /\ MergeIdle /\ GalleryIdle

\* the filter state changes to g and the memo recomputes
SetFilter(g) ==
    /\ f' = g
    /\ filtered' = applyFilters(cards, g)
    /\ cards' = CardsAfter(cards, g)
    /\ UNCHANGED <<parserVars, gradeVars, mergeVars, galleryVars>>

SetQ == \E q \in Queries : q # f.q /\ SetFilter([f EXCEPT !.q = q])
ToggleMew == SetFilter([f EXCEPT !.mew = ~@])
ToggleCameo == SetFilter([f EXCEPT !.cameo = ~@])
ToggleIntl == SetFilter([f EXCEPT !.intl = ~@])
SetSortBy == \E k \in SortKeyInputs : k # f.sortBy /\ SetFilter([f EXCEPT !.sortBy = k])

FilterNext == SetQ \/ ToggleMew \/ ToggleCameo \/ ToggleIntl \/ SetSortBy

SpecFilter == FilterInit /\ [][FilterNext]_vars

(***************************************************************************)
(* PokeCardGallery: checkAuth, the fetch effect and its round, the image   *)
(* preload effect, the password form.                                      *)
(***************************************************************************)
\* the responses a source may give: a network failure, the authentication
\* error, an HTTP error page, an error text, an empty sheet, a header alone,
\* a sheet with one record, a sheet with two records, a blank line, a back
\* image and a flag column
Response(failed, ok, text) == [failed |-> failed, ok |-> ok, text |-> text]
SHEET_HEADER_ONLY == <<"n", "a", "m", "e", SPACE, "e", "n", COMMA, "y", "e", "a", "r">>
SHEET_ONE == <<"n", "a", "m", "e", LF, "A", LF>>
SHEET_TWO == <<"n", "a", "m", "e", SPACE, "e", "n", COMMA, "i", "m", "a", "g", "e", SPACE, "b", "a", "c", "k", COMMA, "i", "s", "M", "e", "w", LF, "u30DF", COMMA, "b", COMMA, "t", "r", "u", "e", LF, LF, "B", COMMA, COMMA, "0", LF>>
Responses ==
    { Response(TRUE, FALSE, <<>>),
      Response(FALSE, TRUE, AUTH_FAILED_TEXT),
      Response(FALSE, FALSE, <<"x">>),
      Response(FALSE, FALSE, ERROR_PREFIX),
      Response(FALSE, TRUE, <<>>),
      Response(FALSE, TRUE, SHEET_HEADER_ONLY),
      Response(FALSE, TRUE, SHEET_ONE),
      Response(FALSE, TRUE, SHEET_TWO) }

\* the passwords a visitor may type
Passwords == {"pw1", "pw2"}

sourceCards == IF remoteCards.null THEN <<>> ELSE remoteCards.cards

\* the condition under which the component returns <LoadingScreen>
LoadingScreen == ~authChecked \/ ~imagesLoaded \/ (passwordRequired /\ ~isAuthenticated)
\* showPassword, the condition under which LoadingScreen renders the form
ShowPassword == passwordRequired /\ ~isAuthenticated

GalleryInit ==
    /\ remoteCards = Null /\ dataStatus = "loading" /\ loadingProgress = 0
    /\ imagesLoaded = FALSE /\ isAuthenticated = FALSE /\ authChecked = FALSE
    /\ isAuthenticating = FALSE /\ passwordRequired = FALSE /\ password = ""
    /\ configPending = TRUE
    /\ fetchDeps = <<"unmounted", FALSE, FALSE>>
    /\ results = <<Pending, Pending, Pending>> /\ inflight = 0 /\ arrival = <<>>
    /\ imageDeps = <<Null, "unmounted", FALSE>>
    /\ loadedCount = 0 /\ totalCount = 0 /\ imgPending = 0 /\ timers = 0
    /\ ParserIdle /\ GradeIdle /\ MergeIdle /\ FilterIdle

Init == GalleryInit

\* checkAuth after its request settled: enabled is config.passwordEnabled,
\* failed a rejected fetch or a body that is no JSON
CheckAuthSettles(failed, enabled) ==
    /\ configPending
    /\ configPending' = FALSE
    /\ IF ~failed /\ enabled
       THEN passwordRequired' = TRUE /\ UNCHANGED isAuthenticated
       ELSE isAuthenticated' = TRUE /\ UNCHANGED passwordRequired
    /\ authChecked' = TRUE
    /\ UNCHANGED <<remoteCards, dataStatus, loadingProgress, imagesLoaded,
                   isAuthenticating, password, fetchDeps, results, arrival, inflight, imageDeps,
                   loadedCount, totalCount, imgPending, timers,
                   parserVars, gradeVars, mergeVars, filterVars>>

CheckAuth == \E failed, enabled \in BOOLEAN : CheckAuthSettles(failed, enabled)

\* the data-fetching effect, run after a render in which one of
\* [password, passwordRequired, authChecked] changed: it starts a round or not
FetchEffect ==
    /\ fetchDeps # <<password, passwordRequired, authChecked>>
    /\ fetchDeps' = <<password, passwordRequired, authChecked>>
    /\ IF authChecked /\ ((~passwordRequired /\ authChecked) \/ password # "")
       THEN results' = <<Pending, Pending, Pending>> /\ inflight' = inflight + 1
            /\ arrival' = <<>>
       ELSE UNCHANGED <<results, inflight, arrival>>
    /\ UNCHANGED <<reactVars, configPending, imageDeps, loadedCount, totalCount,
                   imgPending, timers, parserVars, gradeVars, mergeVars, filterVars>>

\* one promise of the round settles
FetchSettles(k, resp) ==
    /\ inflight > 0
    /\ results[k].status = "pending"
    /\ results' = [results EXCEPT ![k] = FetchOutcome(resp)]
    /\ arrival' = Append(arrival, k)
    /\ UNCHANGED <<reactVars, configPending, fetchDeps, inflight, imageDeps,
                   loadedCount, totalCount, imgPending, timers,
                   parserVars, gradeVars, mergeVars, filterVars>>

FetchSettle == \E k \in 1..Len(Sources), resp \in Responses : FetchSettles(k, resp)

\* what fetchAllSheets decides once Promise.allSettled has resolved
RoundOutcome(res) ==
    IF AuthFailed(res)
    THEN [authFailed |-> TRUE, remoteCards |-> Null, dataStatus |-> "unchanged"]
    ELSE IF Len(SuccessfulGroups(res)) > 0
    THEN [authFailed |-> FALSE, remoteCards |-> Cards(mergeCardsNoDedupe(SuccessfulGroups(res))),
          dataStatus |-> "loaded"]
    ELSE [authFailed |-> FALSE, remoteCards |-> Null, dataStatus |-> "fallback"]

\* RoundOutcome, tabulated over the results a round can end with
Settled == { FetchOutcome(resp) : resp \in Responses }
RoundOutcomes ==
    { [results |-> res, outcome |-> RoundOutcome(res)] : res \in [1..Len(Sources) -> Settled] }

\* (mutant) the groups are assembled in the order in which the sources answered
RECURSIVE GroupsAsArrived(_, _)
GroupsAsArrived(res, order) ==
    IF order = <<>> THEN <<>>
    ELSE (IF res[Head(order)].status = "fulfilled" /\ res[Head(order)].value # <<>>
             /\ Len(parseCSV(res[Head(order)].value)) > 0
          THEN <<[cards |-> parseCSV(res[Head(order)].value), flag |-> Sources[Head(order)]]>>
          ELSE <<>>) \o GroupsAsArrived(res, Tail(order))

OutcomeAsArrived(res) ==
    IF AuthFailed(res) \/ GroupsAsArrived(res, arrival) = <<>> THEN RoundOutcome(res)
    ELSE [authFailed |-> FALSE, dataStatus |-> "loaded",
          remoteCards |-> Cards(mergeCardsNoDedupe(GroupsAsArrived(res, arrival)))]

OutcomeOf(res) == (CHOOSE p \in RoundOutcomes : p.results = res).outcome

\* the rest of fetchAllSheets, after await Promise.allSettled(...)
RoundEnds ==
    /\ inflight > 0
    /\ \A k \in 1..Len(Sources) : results[k].status # "pending"
    /\ inflight' = inflight - 1
    /\ LET o == OutcomeOf(results) IN
       /\ remoteCards' = o.remoteCards
       /\ IF o.authFailed
          THEN /\ password' = ""
               /\ isAuthenticating' = FALSE
               /\ UNCHANGED <<dataStatus, isAuthenticated>>
          ELSE /\ dataStatus' = o.dataStatus
               /\ isAuthenticated' = TRUE
               /\ UNCHANGED <<password, isAuthenticating>>
    /\ UNCHANGED <<loadingProgress, imagesLoaded, authChecked, passwordRequired,
                   configPending, fetchDeps, results, arrival, imageDeps, loadedCount, totalCount,
                   imgPending, timers, parserVars, gradeVars, mergeVars, filterVars>>

\* the early return of the preload effect
PreloadSkipped == dataStatus # "loaded" \/ ~isAuthenticated

\* the image preload effect, run after a render in which one of
\* [sourceCards, dataStatus, isAuthenticated] changed
ImageEffect ==
    /\ imageDeps # <<remoteCards, dataStatus, isAuthenticated>>
    /\ imageDeps' = <<remoteCards, dataStatus, isAuthenticated>>
    /\ IF PreloadSkipped
       THEN UNCHANGED <<loadingProgress, imagesLoaded, loadedCount, totalCount, imgPending>>
       ELSE IF ImageCount(sourceCards) = 0
       THEN /\ imagesLoaded' = TRUE
            /\ UNCHANGED <<loadingProgress, loadedCount, totalCount, imgPending>>
       ELSE /\ loadedCount' = 0
            /\ totalCount' = ImageCount(sourceCards)
            /\ loadingProgress' = 0
            /\ imagesLoaded' = FALSE
            /\ imgPending' = imgPending + ImageCount(sourceCards)
    /\ UNCHANGED <<remoteCards, dataStatus, isAuthenticated, authChecked, isAuthenticating,
                   passwordRequired, password, configPending, fetchDeps, results, arrival, inflight,
                   timers, parserVars, gradeVars, mergeVars, filterVars>>

\* onFinish, the handler of both img.onload and img.onerror
OnFinish ==
    /\ imgPending > 0
    /\ imgPending' = imgPending - 1
    /\ loadedCount' = loadedCount + 1
    /\ loadingProgress' = Progress(loadedCount + 1, totalCount)
    /\ timers' = IF loadedCount + 1 = totalCount THEN timers + 1 ELSE timers
    /\ UNCHANGED <<remoteCards, dataStatus, imagesLoaded, isAuthenticated, authChecked,
                   isAuthenticating, passwordRequired, password, configPending, fetchDeps,
                   results, arrival, inflight, imageDeps, totalCount,
                   parserVars, gradeVars, mergeVars, filterVars>>

\* (mutant) an image that fails is not counted
OnErrorIgnored ==
    /\ imgPending > 0
    /\ imgPending' = imgPending - 1
    /\ UNCHANGED <<reactVars, configPending, fetchDeps, results, arrival, inflight, imageDeps,
                   loadedCount, totalCount, timers,
                   parserVars, gradeVars, mergeVars, filterVars>>

ImageLoads == OnFinish
ImageFails == OnFinish

\* the callback of setTimeout(() => setImagesLoaded(true), 400)
TimerFires ==
    /\ timers > 0
    /\ timers' = timers - 1
    /\ imagesLoaded' = TRUE
    /\ UNCHANGED <<remoteCards, dataStatus, loadingProgress, isAuthenticated, authChecked,
                   isAuthenticating, passwordRequired, password, configPending, fetchDeps,
                   results, arrival, inflight, imageDeps, loadedCount, totalCount, imgPending,
                   parserVars, gradeVars, mergeVars, filterVars>>

\* (mutant) the form also submits while a round is running
SubmitPasswordWhileAuthenticating ==
    /\ LoadingScreen /\ ShowPassword
    /\ \E pw \in Passwords : password' = pw
    /\ isAuthenticating' = TRUE
    /\ UNCHANGED <<remoteCards, dataStatus, loadingProgress, imagesLoaded, isAuthenticated,
                   authChecked, passwordRequired, asyncVars,
                   parserVars, gradeVars, mergeVars, filterVars>>

\* LoadingScreen.handleSubmit with a non-empty input, then handlePasswordSubmit
SubmitPassword ==
    /\ LoadingScreen /\ ShowPassword
    /\ ~isAuthenticating
    /\ \E pw \in Passwords : password' = pw
    /\ isAuthenticating' = TRUE
    /\ UNCHANGED <<remoteCards, dataStatus, loadingProgress, imagesLoaded, isAuthenticated,
                   authChecked, passwordRequired, asyncVars,
                   parserVars, gradeVars, mergeVars, filterVars>>

\* what the program does by itself, and what the visitor does
Internal ==
    \/ CheckAuth \/ FetchEffect \/ FetchSettle \/ RoundEnds
    \/ ImageEffect \/ ImageLoads \/ ImageFails \/ TimerFires

Next == Internal \/ SubmitPassword

Spec == Init /\ [][Next]_vars

\* every request settles, every effect and every callback that is due runs
LiveSpec == Spec /\ WF_vars(Internal)

(***************************************************************************)
(* Properties of the row-parsing loop.                                     *)
(***************************************************************************)
\* the text a quoted part stands for: each doubled quote is one quote
RECURSIVE Unescape(_)
Unescape(s) ==
    IF s = <<>> THEN <<>>
    ELSE IF Len(s) >= 2 /\ s[1] = QUOTE /\ s[2] = QUOTE
    THEN <<QUOTE>> \o Unescape(SubSeq(s, 3, Len(s)))
    ELSE <<Head(s)>> \o Unescape(Tail(s))

RECURSIVE RunTo(_, _)
RunTo(p, k) == IF p.i < k THEN RunTo(LoopStep(p), k) ELSE p

\* the loop's locals when it read the quote that is still open
AtOpen == RunTo(ParserBegin(csv), quoteAt)
\* everything after that quote, up to end-of-input
AfterOpen == SubSeq(csv, quoteAt + 2, Len(csv))
\* the one cell the open quote's content ends up in
OpenCell == Trim(AtOpen.field \o Unescape(AfterOpen))
UnterminatedDone == ppc = "done" /\ inQuotes

\* C2 as stated: when the input ends inside a quote, the loop has finished and
\* everything after the opening quote (commas and row separators included,
\* doubled quotes unescaped, the cell trimmed) is in one cell, the last cell of
\* the last row of the result, and no cell or row was added after the quote.
C2_UnterminatedIsLastCellOfLastRow ==
    UnterminatedDone =>
        /\ rows # <<>>
        /\ rows = Append(AtOpen.rows, Append(AtOpen.row, OpenCell))

\* C2 amended: the same, except that the last row is dropped, as a blank line
\* is, when that cell is its only cell and is empty after trimming.
C2_UnterminatedIsOneCell ==
    /\ (ppc = "loop" /\ inQuotes) => (rows = AtOpen.rows /\ row = AtOpen.row)
    /\ UnterminatedDone =>
        /\ row = Append(AtOpen.row, OpenCell)
        /\ rows = IF AtOpen.row = <<>> /\ OpenCell = <<>>
                  THEN AtOpen.rows
                  ELSE Append(AtOpen.rows, Append(AtOpen.row, OpenCell))

\* an unterminated quote followed by a comma and a row separator, kept as a row
C2_Witness ==
    /\ UnterminatedDone
    /\ \E k \in 1..Len(AfterOpen) : AfterOpen[k] = COMMA
    /\ \E k \in 1..Len(AfterOpen) : AfterOpen[k] \in {LF, CR}
    /\ rows # <<>>
    /\ \E k \in 1..Len(Last(Last(rows))) : Last(Last(rows))[k] = COMMA

\* a quoted part's inside: every quote in it is one of a doubled pair
RECURSIVE WellQuoted(_)
WellQuoted(s) ==
    \/ s = <<>>
    \/ Head(s) # QUOTE /\ WellQuoted(Tail(s))
    \/ Len(s) >= 2 /\ s[1] = QUOTE /\ s[2] = QUOTE /\ WellQuoted(SubSeq(s, 3, Len(s)))

Plain(s) == \A k \in 1..Len(s) : s[k] \notin {QUOTE, COMMA, LF, CR}

\* the rows of a text made of a quoted part, then nothing or a comma and an
\* unquoted cell
QuotedThenPlain(body, rest) ==
    LET cells == <<Trim(Unescape(body))>>
                     \o (IF rest = <<>> THEN <<>> ELSE <<Trim(Tail(rest))>>)
    IN  IF Len(cells) > 1 \/ cells[1] # <<>> THEN <<cells>> ELSE <<>>

\* C13: in a quoted part a comma is content and a doubled quote is one quote,
\* and the part ends at the first quote that is not doubled: a text that is a
\* quoted part, alone or followed by a comma and an unquoted cell, parses to one
\* row whose first cell is the unescaped inside of the quotes.
C13_QuotedCell ==
    ppc = "done" =>
        \A n \in 0..(Len(csv) - 2) :
            LET body == SubSeq(csv, 2, n + 1)
                rest == SubSeq(csv, n + 3, Len(csv))
            IN  ( /\ csv[1] = QUOTE /\ csv[n + 2] = QUOTE /\ WellQuoted(body)
                  /\ rest = <<>> \/ (rest[1] = COMMA /\ Plain(Tail(rest))) )
                => rows = QuotedThenPlain(body, rest)

\* the cell "He said ""hi"", ok" parsed to He said "hi", ok
C13_Witness ==
    /\ ppc = "done" /\ csv = QUOTED_CELL
    /\ rows = << << <<"H", "e", SPACE, "s", "a", "i", "d", SPACE, QUOTE, "h", "i", QUOTE,
                      COMMA, SPACE, "o", "k">> >> >>

NoQuote(s) == \A k \in 1..Len(s) : s[k] # QUOTE

\* the text with every row separator written as \n
RECURSIVE ToLF(_)
ToLF(s) ==
    IF s = <<>> THEN <<>>
    ELSE IF Len(s) >= 2 /\ s[1] = CR /\ s[2] = LF THEN <<LF>> \o ToLF(SubSeq(s, 3, Len(s)))
    ELSE IF s[1] = CR THEN <<LF>> \o ToLF(Tail(s))
    ELSE <<s[1]>> \o ToLF(Tail(s))

\* the pieces of s between the occurrences of sep, cur being the piece begun
RECURSIVE SplitOn(_, _, _)
SplitOn(s, sep, cur) ==
    IF s = <<>> THEN <<cur>>
    ELSE IF Head(s) = sep THEN <<cur>> \o SplitOn(Tail(s), sep, <<>>)
    ELSE SplitOn(Tail(s), sep, Append(cur, Head(s)))

\* one single-cell row for each line that is not blank
RECURSIVE LineRows(_)
LineRows(ls) ==
    IF ls = <<>> THEN <<>>
    ELSE (IF Trim(Head(ls)) # <<>> THEN << <<Trim(Head(ls))>> >> ELSE <<>>)
             \o LineRows(Tail(ls))

\* C14: outside quotes \n, \r\n and bare \r are the same row break: a text
\* without quotes parses to the rows of the same text written with \n only,
\* and, when it has no comma either, to one row for each of its non-blank lines.
C14_RowSeparators ==
    (ppc = "done" /\ NoQuote(csv)) =>
        /\ rows = ParseRows(ToLF(csv))
        /\ (\A k \in 1..Len(csv) : csv[k] # COMMA)
               => rows = LineRows(SplitOn(ToLF(csv), LF, <<>>))

\* two rows separated by \r\n: two rows, and the \n was skipped with the \r
C14_Witness ==
    /\ ppc = "done" /\ csv = <<"a", CR, LF, "a">>
    /\ rows = << << <<"a">> >>, << <<"a">> >> >>

HasNonEmptyCell(r) == \E k \in 1..Len(r) : r[k] # <<>>
\* the row that the cells pushed so far and the field being read make up
RowSoFar == Append(row, Trim(field))
\* the iteration that reads a row separator
AtRowBreak == ppc = "loop" /\ ppc' = "loop" /\ ~inQuotes /\ At(csv, i) \in {LF, CR}
AtFinish == ppc = "loop" /\ ppc' = "done"

\* C15 as stated: the row list holds no row whose cells are all empty, the
\* last row of a text that does not end with a row separator included.
C15_NoEmptyRow == ppc = "done" => \A k \in 1..Len(rows) : HasNonEmptyCell(rows[k])

\* C15 amended: a row ended by a row separator is kept if and only if it has a
\* non-empty cell; the last row of a text that does not end with a row
\* separator is kept if and only if it has a non-empty cell or more than one
\* cell.
C15_EmptyRows ==
    /\ [](ppc = "loop" => \A k \in 1..Len(rows) : HasNonEmptyCell(rows[k]))
    /\ [][AtRowBreak =>
             rows' = IF HasNonEmptyCell(RowSoFar) THEN Append(rows, RowSoFar) ELSE rows]_vars
    /\ [][AtFinish =>
             rows' = IF HasNonEmptyCell(RowSoFar) \/ Len(RowSoFar) > 1
                     THEN Append(rows, RowSoFar) ELSE rows]_vars

\* a header row, then a last row of two empty cells, which is kept
C15_Witness ==
    /\ ppc = "done" /\ csv = <<"a", LF, COMMA>>
    /\ rows = << << <<"a">> >>, << <<>>, <<>> >> >>

\* the iteration that reads a row separator between quotes
AtQuotedBreak == ppc = "loop" /\ ppc' = "loop" /\ inQuotes /\ At(csv, i) \in {LF, CR}
HasBreak(s) == \E k \in 1..Len(s) : s[k] \in {LF, CR}

\* C29: a row separator between quotes is added to the field and ends neither
\* the field nor the row; rows are added only at a row separator outside
\* quotes and at end-of-input; so a text made of plain text, a quoted part
\* without quote that holds a row separator, and plain text is one row of one
\* cell, which holds the separator (the cell being trimmed as every cell is).
C29_QuotedBreakIsContent ==
    /\ [][AtQuotedBreak =>
              /\ field' = Append(field, At(csv, i)) /\ i' = i + 1
              /\ row' = row /\ rows' = rows /\ inQuotes']_vars
    /\ [][rows' # rows => (AtRowBreak \/ AtFinish)]_vars
    /\ [](ppc = "done" =>
              \A a \in 1..Len(csv), b \in 1..Len(csv) :
                  LET before == SubSeq(csv, 1, a - 1)
                      inside == SubSeq(csv, a + 1, b - 1)
                      after == SubSeq(csv, b + 1, Len(csv))
                      cell == Trim(before \o inside \o after)
                  IN  ( /\ a < b /\ csv[a] = QUOTE /\ csv[b] = QUOTE
                        /\ Plain(before) /\ Plain(after)
                        /\ NoQuote(inside) /\ HasBreak(inside) )
                      => rows = IF cell = <<>> THEN <<>> ELSE << <<cell>> >>)

\* the sample with \r\n between quotes: two rows, the break inside the cell
C29_Witness ==
    /\ ppc = "done" /\ csv = QUOTED_BREAK
    /\ rows = << << <<"a">>, <<"a", CR, LF, "a">> >>, << <<"a">> >> >>

AtIteration == ppc = "loop" /\ ppc' = "loop"

\* C30: every iteration of the character loop, between quotes or not, moves
\* the read index forward by at least one character and not past the end of
\* the text, the index never moves back, the loop runs at most as many
\* iterations as the text has characters, and it ends.
C30_LoopTerminates ==
    /\ [][AtIteration => (i' >= i + 1 /\ i' <= Len(csv))]_vars
    /\ [][i' >= i]_vars
    /\ [](iter <= i /\ iter <= Len(csv))
    /\ <>(ppc = "done")

\* a text read to its end in fewer iterations than characters: each of its
\* two escaped quotes took one iteration for two characters
C30_Witness ==
    /\ ppc = "done" /\ csv = QUOTED_CELL /\ i = Len(csv)
    /\ iter = Len(csv) - 2

(***************************************************************************)
(* Properties of the column resolution and the record loop.                *)
(***************************************************************************)
Resolved == ppc \in {"records", "returned"} /\ Len(rows) >= 2
Fields == DOMAIN ColumnNames

\* header cell k is the name, letter case apart
HeaderIs(k, name) == ToLowerCase(rows[1][k]) = ToLowerCase(name)
InHeader(name) == \E k \in 1..Len(rows[1]) : HeaderIs(k, name)
\* the 0-based position of the first header cell that is the name
FirstColumn(name) ==
    (CHOOSE k \in 1..Len(rows[1]) :
         HeaderIs(k, name) /\ \A m \in 1..(k - 1) : ~HeaderIs(m, name)) - 1

\* the column the claim states for a field: names[1] is the primary name
ColumnOf(names) ==
    IF InHeader(names[1]) THEN FirstColumn(names[1])
    ELSE IF \E a \in 2..Len(names) : InHeader(names[a])
    THEN FirstColumn(names[CHOOSE a \in 2..Len(names) :
                               InHeader(names[a]) /\ \A b \in 2..(a - 1) : ~InHeader(names[b])])
    ELSE -1

\* C16: a field's column is the first header cell that is its primary name,
\* letter case apart; failing that the first header cell that is the first of
\* its aliases, in list order, found in the header; failing that -1.
C16_ColumnResolution ==
    Resolved => \A fld \in Fields : colIdx[fld] = ColumnOf(ColumnNames[fld])

\* the alias NAME in the first column and the primary name, in mixed case, in
\* the second: the second is chosen
C16_Witness ==
    /\ Resolved
    /\ rows[1] = << <<"N", "A", "M", "E">>, <<"N", "a", "m", "e", SPACE, "E", "N">> >>
    /\ colIdx.nameEN = 1 /\ colIdx.number = -1

\* the cell of data row r (1-based among the rows, the header being row 0)
\* under the column resolved for a field; empty when there is none
CellOf(r, fld) ==
    IF colIdx[fld] >= 0 /\ colIdx[fld] < Len(rows[r + 1])
    THEN rows[r + 1][colIdx[fld] + 1] ELSE <<>>
Named(r) == CellOf(r, "nameEN") # <<>> \/ CellOf(r, "nameJP") # <<>>
NameOf(r) == IF CellOf(r, "nameEN") # <<>> THEN CellOf(r, "nameEN") ELSE CellOf(r, "nameJP")

\* the data rows that have a name, in row order, from row r on
RECURSIVE NamedRowsFrom(_)
NamedRowsFrom(r) ==
    IF r >= Len(rows) THEN <<>>
    ELSE (IF Named(r) THEN <<r>> ELSE <<>>) \o NamedRowsFrom(r + 1)
NamedRows == NamedRowsFrom(1)

\* C17: the records are those of the data rows whose English-name cell or
\* Japanese-name cell is non-empty, one for each, in row order, and each has a
\* non-empty nameEN: the English name, or the Japanese one when that is empty.
C17_NamedRowsOnly ==
    ppc = "returned" =>
        /\ Len(parsed) = Len(NamedRows)
        /\ \A k \in 1..Len(parsed) :
               /\ parsed[k].nameEN = NameOf(NamedRows[k])
               /\ parsed[k].nameEN # <<>>
               /\ parsed[k].nameJP = OrUndefined(CellOf(NamedRows[k], "nameJP"))

\* a row with neither name, then a row with a Japanese name only
C17_Witness ==
    /\ ppc = "returned" /\ Len(rows) = 3
    /\ ~Named(1) /\ CellOf(2, "nameEN") = <<>> /\ CellOf(2, "nameJP") = <<"u30DF">>
    /\ Len(parsed) = 1 /\ parsed[1].nameEN = <<"u30DF">>

\* the text fields that are absent when their cell is empty, and those that
\* are then the empty string
OptionalText ==
    {"nameJP", "notesEN", "notesJP", "originEN", "originJP", "rarity", "language",
     "imageBack", "illustrator", "era", "release", "edition"}
PlainText == {"number", "set"}

\* what a field is when its cell is empty
DefaultOf(r, fld) ==
    IF fld \in OptionalText THEN Undefined
    ELSE IF fld = "image" THEN IMG_FALLBACK
    ELSE IF fld = "nameEN" THEN CellOf(r, "nameJP")
    ELSE <<>>

\* C18: every text field of the record built from a named data row is the
\* cell at the column resolved for the field; where that column is unresolved,
\* or at or past the end of the row, or the cell is empty, the field is absent
\* or its default, and the row has its record all the same.
C18_FieldsFromCells ==
    ppc = "returned" =>
        /\ Len(parsed) = Len(NamedRows)
        /\ \A k \in 1..Len(parsed) :
               \A fld \in OptionalText \cup PlainText \cup {"image", "nameEN"} :
                   parsed[k][fld] = IF CellOf(NamedRows[k], fld) # <<>>
                                    THEN CellOf(NamedRows[k], fld)
                                    ELSE DefaultOf(NamedRows[k], fld)

\* a row that has the cell of the second column and a row that ends before it
C18_Witness ==
    /\ ppc = "returned" /\ Len(rows) = 3 /\ Len(parsed) = 2
    /\ colIdx["imageBack"] = 1 /\ colIdx["image"] = -1
    /\ Len(rows[2]) = 3 /\ parsed[1].imageBack = <<"u30DF">>
    /\ Len(rows[3]) = 1 /\ parsed[2].imageBack = Undefined
    /\ parsed[2].image = IMG_FALLBACK

\* type Edition = '1st' | 'Unlim'
Edition == { <<"1", "s", "t">>, <<"U", "n", "l", "i", "m">> }

\* C21: the edition of every record parseCSV builds is absent or a member of
\* Edition, whatever the edition cell of its row holds.
C21_EditionClosed ==
    \A k \in 1..Len(parsed) : parsed[k].edition \in Edition \cup {Undefined}

(***************************************************************************)
(* Properties of normalizePC.                                              *)
(***************************************************************************)
RAW == <<"R", "A", "W">>
PSA == <<"P", "S", "A">>
Grades == 1..10
GradeToken(n) == PSA \o NatToStr(n)

\* the ways of writing the grade n in one or two digits
GradeForms(n) == {NatToStr(n)} \cup (IF n < 10 THEN {<<"0">> \o NatToStr(n)} ELSE {})

\* the grade texts that stand for the grade n, given the separators allowed
\* between PSA and the digits
StandsFor(t, n, seps) == \E sp \in seps, ds \in GradeForms(n) : t = PSA \o sp \o ds

\* what the description gives for the input, given the separators allowed
Described(input, seps) ==
    LET t == ToUpperCase(Trim(input)) IN
    IF t = RAW THEN RAW
    ELSE IF \E n \in Grades : StandsFor(t, n, seps)
    THEN GradeToken(CHOOSE n \in Grades : StandsFor(t, n, seps))
    ELSE Undefined

OneSpace == {<<>>, <<SPACE>>}
OneWhiteSpace == {<<>>} \cup { <<c>> : c \in {SPACE, "\t", LF, CR, BOM} }

\* C19, as stated: the result is RAW for RAW, PSA<N> for PSA, optionally one
\* space, and one or two digits of value 1 to 10, and undefined for every
\* other input.
C19_OneSpace == gpc = "returned" => pcOut = Described(pcValue, OneSpace)

\* C19, amended: the result is undefined, RAW or PSA<N> with N from 1 to 10 and
\* no leading zero; after trimming and upper-casing, RAW gives RAW, and PSA,
\* optionally one white-space character of any kind, and one or two digits of
\* value 1 to 10 give PSA<N>; every other input gives undefined.
C19_Normalized ==
    gpc = "returned" =>
        /\ pcOut \in {Undefined, RAW} \cup { GradeToken(n) : n \in Grades }
        /\ pcOut = Described(pcValue, OneWhiteSpace)

\* "psa 9" has given PSA9
C19_Witness ==
    /\ gpc = "returned"
    /\ pcValue = <<"p", "s", "a", SPACE, "9">>
    /\ pcOut = <<"P", "S", "A", "9">>

(***************************************************************************)
(* Properties of mergeCardsNoDedupe.                                       *)
(***************************************************************************)
Returned == mpc = "returned"
DistinctFlags == \A a, b \in 1..Len(groups) : a # b => groups[a].flag # groups[b].flag

RECURSIVE SumLen(_)
SumLen(gs) == IF gs = <<>> THEN 0 ELSE Len(Head(gs).cards) + SumLen(Tail(gs))

\* the output position of the k-th record (k from 1) of group g
PosOf(g, k) == SumLen(SubSeq(groups, 1, g - 1)) + k
InputPositions == {<<g, k>> \in (1..Len(groups)) \X (1..MaxMergeCards + 1) :
                       k <= Len(groups[g].cards)}

\* C1: when no two groups carry the same flag, the ids of the returned
\* records are pairwise distinct.
C1_IdsDistinct ==
    (Returned /\ DistinctFlags) =>
        \A a, b \in 1..Len(merged) : a # b => merged[a].id # merged[b].id

\* two groups with different flags holding the same record at the same index,
\* one group holding a record twice, and a name without ASCII letter or digit
C1_Witness ==
    /\ Returned /\ DistinctFlags /\ Len(groups) = 2
    /\ Len(groups[1].cards) = 2 /\ Len(groups[2].cards) = 1
    /\ groups[1].cards[1] = groups[1].cards[2]
    /\ groups[1].cards[1] = groups[2].cards[1]
    /\ groups[1].cards[1].nameEN = <<"u30DF">>

\* C3: the output holds one record per input record, and a record that occurs
\* in two groups with different flags occurs twice, under two different ids.
C3_NoDedupe ==
    Returned =>
        /\ Len(merged) = SumLen(groups)
        /\ \A x, y \in InputPositions :
               ( /\ x # y
                 /\ groups[x[1]].flag # groups[y[1]].flag
                 /\ groups[x[1]].cards[x[2]] = groups[y[1]].cards[y[2]] )
               => /\ PosOf(x[1], x[2]) # PosOf(y[1], y[2])
                  /\ merged[PosOf(x[1], x[2])].id # merged[PosOf(y[1], y[2])].id

C3_Witness ==
    /\ Returned /\ Len(groups) = 2 /\ groups[1].flag # groups[2].flag
    /\ Len(groups[1].cards) = 1 /\ groups[1].cards = groups[2].cards
    /\ Len(merged) = 2 /\ merged[1].id # merged[2].id

\* C4: the output record of every record of a group with flag F has F = true,
\* whatever the input record's F was.
C4_FlagForced ==
    Returned =>
        \A x \in InputPositions : merged[PosOf(x[1], x[2])][groups[x[1]].flag] = "true"

\* a record whose flag was explicitly false and one whose flag was undefined
C4_Witness ==
    /\ Returned
    /\ \E x \in InputPositions : groups[x[1]].cards[x[2]][groups[x[1]].flag] = "false"
    /\ \E x \in InputPositions : groups[x[1]].cards[x[2]][groups[x[1]].flag] = "undefined"

\* the fields of a record other than its id and its category flags
Payload(c) == [c EXCEPT !.id = <<>>, !.isMew = "undefined", !.isCameo = "undefined",
                        !.isIntl = "undefined"]

\* C5: the k-th record of group g is at output position
\* (sum of the lengths of the groups before g) + k.
C5_OrderKept ==
    Returned =>
        \A x \in InputPositions :
            /\ PosOf(x[1], x[2]) <= Len(merged)
            /\ Payload(merged[PosOf(x[1], x[2])]) = Payload(groups[x[1]].cards[x[2]])
            /\ merged[PosOf(x[1], x[2])].id =
                   MergeRecord(groups[x[1]].cards[x[2]], groups[x[1]].flag, x[2] - 1).id

\* two non-empty groups with different records
C5_Witness ==
    /\ Returned /\ Len(groups) = 2
    /\ Len(groups[1].cards) = 2 /\ Len(groups[2].cards) = 1
    /\ Payload(groups[1].cards[1]) # Payload(groups[1].cards[2])
    /\ Payload(groups[1].cards[2]) # Payload(groups[2].cards[1])

\* C22: every record of the merged collection carries exactly the flag of
\* its origin: that flag is true and neither of the other two is, also when
\* the parsed row had a flag column set to true for another category.
C22_ExactlyOriginFlag ==
    Returned =>
        \A x \in InputPositions :
            /\ merged[PosOf(x[1], x[2])][groups[x[1]].flag] = "true"
            /\ \A other \in Flags \ {groups[x[1]].flag} :
                   merged[PosOf(x[1], x[2])][other] # "true"

\* C23: the ids of the returned records are pairwise distinct for every list
\* of groups, also one in which two groups carry the same flag.
C23_IdsDistinctAnyGroups ==
    Returned => \A a, b \in 1..Len(merged) : a # b => merged[a].id # merged[b].id

(***************************************************************************)
(* Properties of applyFilters.                                             *)
(***************************************************************************)
NoToggle == ~f.mew /\ ~f.cameo /\ ~f.intl
InResult(c) == \E k \in 1..Len(filtered) : filtered[k] = c

\* the search term and the fields the text filter is specified over
QueryTerm == ToLowerCase(Trim(f.q))
TextFields == {"nameEN", "nameJP", "number", "set", "rarity", "notesEN", "notesJP",
               "originEN", "originJP"}
PassesText(c) ==
    \/ QueryTerm = <<>>
    \/ \E fld \in TextFields : c[fld] # Undefined /\ Includes(ToLowerCase(c[fld]), QueryTerm)
PassesCategory(c) ==
    \/ f.mew /\ c.isMew = "true"
    \/ f.cameo /\ c.isCameo = "true"
    \/ f.intl /\ c.isIntl = "true"

\* C8: with mew, cameo and intl all false the result is the empty sequence,
\* for every collection, query text and sort key.
C8_NoToggleEmpty == NoToggle => filtered = <<>>

\* all toggles off over a non-empty collection that the empty query matches
C8_Witness == NoToggle /\ cards # <<>> /\ QueryTerm = <<>> /\ f.sortBy = "name"

\* C9: a record (that passes the category filter) is in the result if and
\* only if the trimmed, lower-cased query is empty or a substring of the
\* lower-cased value of one of its present fields nameEN, nameJP, number,
\* set, rarity, notesEN, notesJP, originEN, originJP.
C9_TextFilter ==
    \A k \in 1..Len(cards) :
        PassesCategory(cards[k]) => (InResult(cards[k]) <=> PassesText(cards[k]))

\* a query found only in one record's Japanese name returns that record alone
C9_Witness ==
    /\ f.q = <<"u30DF">> /\ f.mew /\ f.cameo
    /\ Len(cards) = 2 /\ Len(filtered) = 1
    /\ filtered[1].nameJP = <<"u30DF">>
    /\ ~Includes(ToLowerCase(filtered[1].nameEN), QueryTerm)
    /\ \E k \in 1..2 : PassesCategory(cards[k]) /\ ~InResult(cards[k])

\* C10: with at least one toggle on, a record that passes the text filter is
\* in the result if and only if (mew and isMew) or (cameo and isCameo) or
\* (intl and isIntl), a flag counting only when it is true.
C10_CategoryFilter ==
    ~NoToggle =>
        \A k \in 1..Len(cards) :
            PassesText(cards[k]) => (InResult(cards[k]) <=> PassesCategory(cards[k]))

\* two toggles on: a record with one of the two flags is kept, a record whose
\* flags for the enabled toggles are false or undefined is not
C10_Witness ==
    /\ f.mew /\ f.cameo /\ ~f.intl /\ QueryTerm = <<>>
    /\ \E k \in 1..Len(cards) :
           cards[k].isMew = "false" /\ cards[k].isCameo = "true" /\ InResult(cards[k])
    /\ \E k \in 1..Len(cards) :
           cards[k].isMew = "false" /\ cards[k].isCameo = "undefined" /\ ~InResult(cards[k])

InOrder(sortBy, x, y) ==
    CASE sortBy = "releaseAsc" -> releaseTs(x) <= releaseTs(y)
      [] sortBy = "releaseDesc" -> releaseTs(x) >= releaseTs(y)
      [] sortBy = "yearAsc" -> x.year <= y.year
      [] sortBy = "name" -> localeCompare(x.nameEN, y.nameEN) <= 0
      [] sortBy = "rarity" ->
            /\ localeCompare(OrEmpty(x.rarity), OrEmpty(y.rarity)) <= 0
            /\ Truthy(x.rarity) => Truthy(y.rarity)
      [] OTHER -> x.year >= y.year

\* C12: the result is ordered by the comparator of its sort key (descending
\* year for yearDesc and for a key that is not recognised).
C12_Ordered ==
    \A j, k \in 1..Len(filtered) : j < k => InOrder(f.sortBy, filtered[j], filtered[k])

\* a sort by an unrecognised key that had to exchange two records
C12_Witness ==
    /\ f.sortBy = "unknown" /\ Len(cards) >= 2 /\ Len(filtered) = Len(cards)
    /\ filtered # cards
    /\ filtered[1].year > filtered[Len(filtered)].year

\* the release timestamp as described: the parsed release, else 1 January of
\* the year itself when the year is positive, else positive infinity
StatedTs(card) ==
    IF Truthy(card.release) /\ DateParses(card.release) THEN DateParse(card.release)
    ELSE IF card.year > 0 THEN card.year * DaysPerYear
    ELSE Infinity

\* C20: a sort by release orders the result by the release timestamp, which is
\* the parsed release, else 1 January of year when year is positive, else
\* positive infinity: the records without a date are last under releaseAsc and
\* first under releaseDesc.
C20_ReleaseOrder ==
    \A j, k \in 1..Len(filtered) :
        j < k =>
            /\ f.sortBy = "releaseAsc" => StatedTs(filtered[j]) <= StatedTs(filtered[k])
            /\ f.sortBy = "releaseDesc" => StatedTs(filtered[j]) >= StatedTs(filtered[k])

(***************************************************************************)
(* Properties of PokeCardGallery.                                          *)
(***************************************************************************)
\* a round has ended and results still holds its promises
RoundOver == inflight = 0 /\ \A k \in 1..Len(Sources) : results[k].status # "pending"

\* parseCSV of the texts a source can answer with, computed once
ParsedSheets == { [text |-> r.text, records |-> parseCSV(r.text)] : r \in Responses }
RecordsIn(text) == (CHOOSE p \in ParsedSheets : p.text = text).records

Succeeded(k) == results[k].status = "fulfilled" /\ Len(RecordsIn(results[k].value)) > 0
Failed(k) == results[k].status = "rejected"
FailedByAuth(k) == Failed(k) /\ results[k].reason = "Authentication Failed"

\* the records of the sources that succeeded, in source order
RECURSIVE RecordsOfSucceeded(_)
RecordsOfSucceeded(k) ==
    IF k > Len(Sources) THEN <<>>
    ELSE (IF Succeeded(k) THEN RecordsIn(results[k].value) ELSE <<>>)
             \o RecordsOfSucceeded(k + 1)

HoldsSucceededRecords ==
    /\ ~remoteCards.null
    /\ Len(remoteCards.cards) = Len(RecordsOfSucceeded(1))
    /\ \A k \in 1..Len(remoteCards.cards) :
           Payload(remoteCards.cards[k]) = Payload(RecordsOfSucceeded(1)[k])

\* the fetch effect never starts a round while another one is running
OneRoundAtATime == inflight <= 1

\* C6: once a round in which no source succeeded has set dataStatus to
\* 'fallback', the component eventually renders the fallback state and no
\* longer the loading screen.
C6_FallbackLeavesLoadingScreen ==
    (dataStatus = "fallback") ~> (dataStatus = "fallback" /\ ~LoadingScreen)

RECURSIVE GroupsInSourceOrder(_)
GroupsInSourceOrder(k) ==
    IF k > Len(Sources) THEN <<>>
    ELSE (IF Succeeded(k)
          THEN <<[cards |-> RecordsIn(results[k].value), flag |-> Sources[k]]>>
          ELSE <<>>) \o GroupsInSourceOrder(k + 1)

\* what the round leaves in remoteCards, as a function of the three results
MergedInSourceOrder ==
    IF (\E k \in 1..Len(Sources) : FailedByAuth(k)) \/ GroupsInSourceOrder(1) = <<>>
    THEN Null
    ELSE Cards(mergeCardsNoDedupe(GroupsInSourceOrder(1)))

\* C24: remoteCards changes only when all three promises of the round have
\* settled, and after the round it is the merge of the groups in the order
\* mew, cameo, intl, in whichever order the three fetches completed.
C24_CompletionOrderIrrelevant ==
    /\ [](RoundOver => remoteCards = MergedInSourceOrder)
    /\ [][remoteCards' # remoteCards =>
              \A k \in 1..Len(Sources) : results[k].status # "pending"]_vars

\* the third source answered first and the first one last, both with records
C24_Witness ==
    /\ RoundOver /\ arrival = <<3, 2, 1>>
    /\ Succeeded(1) /\ Succeeded(3) /\ results[1].value # results[3].value
    /\ sourceCards[1].isMew = "true" /\ sourceCards[Len(sourceCards)].isIntl = "true"

\* the component returns the gallery, not the loading screen
GalleryRendered == ~LoadingScreen
AllSettled == \A k \in 1..Len(Sources) : results[k].status # "pending"

\* C25: the gallery is rendered only with authChecked, imagesLoaded and either
\* no password required or isAuthenticated; and in a gallery with a password
\* isAuthenticated becomes true only when a round ends that was started with a
\* submitted, non-empty password and in which no source answered
\* 'Authentication Failed'.
C25_AccessGated ==
    /\ [](GalleryRendered =>
              authChecked /\ imagesLoaded /\ (~passwordRequired \/ isAuthenticated))
    /\ [][(passwordRequired /\ ~isAuthenticated /\ isAuthenticated') =>
              /\ inflight = 1 /\ inflight' = 0 /\ AllSettled
              /\ fetchDeps[1] \in Passwords /\ password = fetchDeps[1]
              /\ ~\E k \in 1..Len(Sources) : FailedByAuth(k)]_vars

\* a gallery with a password, rendered after a submitted password was accepted
C25_Witness ==
    /\ passwordRequired /\ isAuthenticated /\ GalleryRendered
    /\ dataStatus = "loaded" /\ password # ""

RoundStarts == inflight' > inflight
RoundEndsRefused ==
    inflight = 1 /\ inflight' = 0 /\ \E k \in 1..Len(Sources) : FailedByAuth(k)

\* C26: a round in which a source answered 'Authentication Failed' ends with
\* password empty, remoteCards null and isAuthenticating false, and leaves
\* isAuthenticated and dataStatus as they were; a round starts only with
\* authChecked and either no password required or a non-empty password, so the
\* effect run that follows the reset starts none; and no round starts while
\* another is running.
C26_RefusedRound ==
    /\ [][RoundEndsRefused =>
              /\ password' = "" /\ remoteCards' = Null /\ isAuthenticating' = FALSE
              /\ isAuthenticated' = isAuthenticated /\ dataStatus' = dataStatus]_vars
    /\ [][RoundStarts => authChecked /\ (~passwordRequired \/ password # "")]_vars
    /\ [][(fetchDeps[1] \in Passwords /\ password = "") => ~RoundStarts]_vars
    /\ [][(ShowPassword /\ password' # password /\ password' # "") => ~isAuthenticating]_vars
    /\ [](inflight <= 1)

\* a refused password was reset and the effect has run again without a round
C26_Witness ==
    /\ passwordRequired /\ RoundOver /\ \E k \in 1..Len(Sources) : FailedByAuth(k)
    /\ password = "" /\ fetchDeps = <<"", TRUE, TRUE>>
    /\ ~isAuthenticating /\ ~isAuthenticated /\ remoteCards = Null

RoundEnding == inflight = 1 /\ inflight' = 0

C28_PreloadCompletes ==
    /\ [](loadingProgress \in 0..100)
    /\ [][loadingProgress' >= loadingProgress]_vars
    /\ [][(~imagesLoaded /\ imagesLoaded') =>
              (imgPending = 0 /\ loadedCount = totalCount /\ loadingProgress = 100)]_vars
    /\ (dataStatus = "loaded" /\ isAuthenticated) ~> (imagesLoaded /\ loadingProgress = 100)

\* three images have settled and the gallery is shown
C28_Witness ==
    /\ dataStatus = "loaded" /\ isAuthenticated
    /\ totalCount = 3 /\ loadedCount = 3 /\ imgPending = 0 /\ timers = 0
    /\ loadingProgress = 100 /\ imagesLoaded

====
